---------------------------- MODULE Spec2Model ----------------------------
(***************************************************************************)
(* Model of the upsight-backend board API (src/board) and of the parts of  *)
(* the management API (src/management) that decide who may read what.      *)
(*                                                                         *)
(* The database tables are the state.  Every request handler is one        *)
(* action: it reads the tables, possibly writes them, and leaves the HTTP  *)
(* request it served and the response it returned in `request' and         *)
(* `response'.                                                             *)
(***************************************************************************)
EXTENDS Integers, Sequences, FiniteSets, TLC

VARIABLES
    University,            \* management.University: the set of primary keys
    auth_user,             \* django User: user id -> set of group names (user.groups)
    UniversityManager,     \* management.UniversityManager rows [user, university]
    board,                 \* kind -> rows of News / Notice / Translation / Information
    InformationDocuments,  \* rows of board.InformationDocuments
    Student,               \* management.Student rows, in the table's order
    Class,                 \* management.Class: rows with their teacher keys
    ClassTimeTable,        \* management.ClassTimeTable rows [id, class_model]
    Employee,              \* management.Employee rows
    OrganManager,          \* management.OrganManager rows
    saving,                \* the first save of an Employee / manager row under way
    Enterance,             \* management.Enterance rows [id, university, from_date, to_date, state]
    EnteranceStudentRegistration,  \* rows [id, enterance, student]
    ClassStudentRegistration,      \* rows [id, student, class_model]
    StudentRegistration,           \* rows [id, student, class_model]
    EnterancePayment,      \* rows [id, date, amount, student, enterance]
    ClassPayment,          \* rows [id, date, amount, student, class_model]
    receiver,              \* the object handed to a serializer method or model helper
    returned,              \* what the method returned
    sequences,             \* table -> next primary key (AutoField)
    scan,                  \* table -> the primary keys in the order the database scans them
    request,               \* the request served last
    response               \* the response returned last

\* everything of the management app but University and UniversityManager
management == <<Student, Class, ClassTimeTable, Employee, OrganManager, saving,
                Enterance,
                EnteranceStudentRegistration, ClassStudentRegistration,
                StudentRegistration, EnterancePayment, ClassPayment, receiver, returned,
                scan>>

vars == <<University, auth_user, UniversityManager, board, InformationDocuments,
          management, sequences, request, response>>

tables == <<University, auth_user, UniversityManager, board, InformationDocuments,
            management>>

-----------------------------------------------------------------------------
(* Bounds of the model *)

\* rows created through the board API in one behaviour, all tables together
MaxCreates == 3

-----------------------------------------------------------------------------
(* Values *)

Kinds == {"news", "notice", "translation", "information"}
Tables == Kinds \cup {"document"}

\* an absent key of the request body / Python's None for a foreign key
Absent == 0
NoUniversity == 0

\* Python's None as the value of a text key
None == <<"None">>

\* a null user column / no authenticated user
NoUser == 0

\* decimal digits of a natural number: str(n)
RECURSIVE str(_)
str(n) ==
    LET digit == <<"0", "1", "2", "3", "4", "5", "6", "7", "8", "9">>
    IN IF n < 10 THEN <<digit[n + 1]>> ELSE str(n \div 10) \o <<digit[(n % 10) + 1]>>

\* django.contrib.auth.hashers: passwords are sequences of tokens, and the
\* encoded form of a raw password starts with the name of the algorithm
\* (the salt is left out: check_password undoes it)
make_password(raw) == <<"pbkdf2_sha256$">> \o raw

\* password.startswith("pbkdf2_")
startswith_pbkdf2(password) ==
    password # <<>> /\ Head(password) \in {"pbkdf2_", "pbkdf2_sha256$"}

\* check_password(raw, encoded): only an encoded password can match
check_password(raw, encoded) == encoded = make_password(raw)

\* a row of django's auth_user with its groups
AuthUser(username, password, groups) ==
    [username |-> username, password |-> password, groups |-> groups]

\* a row of management.Enterance; a date is a day number
EnteranceRow(id, university, from_date, to_date, state) ==
    [id |-> id, university |-> university, from_date |-> from_date,
     to_date |-> to_date, state |-> state]

\* a row of management.Class; the teachers are Employee keys
ClassRow(id, teacher_first, teacher_second) ==
    [id |-> id, teacher_first |-> teacher_first, teacher_second |-> teacher_second]

\* the primary keys of a table
ids(rows) == {r.id : r \in rows}

\* the tables read by queries that carry no ORDER BY (no Meta.ordering, no
\* order_by): the order of their rows is the database's choice
ScannedTables == {"EnterancePayment", "ClassPayment", "EnteranceStudentRegistration"}

\* the scan of a database that returns every table by primary key
PrimaryKeyScan == [model \in ScannedTables |-> <<>>]

\* the orders in which the keys of a set can be returned
Orders(keys) ==
    {order \in [1..Cardinality(keys) -> keys] :
        \A i, j \in DOMAIN order : order[i] = order[j] => i = j}

\* no first save is under way
NoSave == [model |-> "none", id |-> 0, pc |-> "done", user |-> NoUser]

\* no serializer method has been called
NoInstance == [model |-> "none"]
NoValue == [method |-> "none", pair |-> "none", language |-> "", result |-> None]

\* a text of n visible characters
Str(n) == [i \in 1..n |-> "x"]

\* an Uzbek and a Korean text of n visible characters
Uz(n) == [i \in 1..n |-> "u"]
Ko(n) == [i \in 1..n |-> "k"]

TextFields == {"title_uz", "title_ko", "content_uz", "content_ko"}
DocumentFields == {"document_uz", "document_ko"}

HTTP_200_OK == 200
HTTP_201_CREATED == 201
HTTP_400_BAD_REQUEST == 400
HTTP_403_FORBIDDEN == 403
HTTP_404_NOT_FOUND == 404

-----------------------------------------------------------------------------
(* Text handling *)

RECURSIVE lstrip(_)
lstrip(s) == IF s # <<>> /\ Head(s) = " " THEN lstrip(Tail(s)) ELSE s

RECURSIVE rstrip(_)
rstrip(s) == IF s # <<>> /\ s[Len(s)] = " " THEN rstrip(SubSeq(s, 1, Len(s) - 1)) ELSE s

\* str.strip()
strip(s) == rstrip(lstrip(s))

\* views.process_form_data on the text keys of the body: a blank string becomes
\* None, any other string is stripped
process_form_data(text) ==
    [k \in DOMAIN text |-> IF strip(text[k]) = <<>> THEN None ELSE strip(text[k])]

-----------------------------------------------------------------------------
(* Roles and scope (board/views.py) *)

\* user.groups.filter(name=...).exists()
in_group(user, name) == name \in auth_user[user].groups

\* the check every board view starts with
is_staff(user) == in_group(user, "upsight_staff") \/ in_group(user, "university_staff")

\* views.get_user_university: the university of the manager row of a
\* university_staff user, None without such a row or outside the group
get_user_university(user) ==
    IF in_group(user, "university_staff")
        /\ \E m \in UniversityManager : m.user = user
    THEN (CHOOSE m \in UniversityManager : m.user = user).university
    ELSE NoUniversity

\* the check the detail, update and delete views make after the lookup:
\*   if user in university_staff: if user_university != row.university: 403
other_university_unlinked(user, university) ==
    in_group(user, "university_staff") /\ get_user_university(user) = NoUniversity

other_university(user, university) ==
    in_group(user, "university_staff") /\ get_user_university(user) # university

filter_by_permissions_unfiltered(queryset, user) ==
    IF in_group(user, "upsight_staff")
    THEN queryset
    ELSE IF get_user_university(user) # NoUniversity THEN queryset ELSE {}

\* views.filter_by_permissions
filter_by_permissions(queryset, user) ==
    IF in_group(user, "upsight_staff")
    THEN queryset
    ELSE IF get_user_university(user) # NoUniversity
         THEN {r \in queryset : r.university = get_user_university(user)}
         ELSE {}

-----------------------------------------------------------------------------
(* Serializers (board/serializers.py) *)

get_title_uz_first(obj) == IF obj.title_uz # <<>> THEN obj.title_uz ELSE obj.title_ko

\* NewsSerializer.get_title / get_content and their copies: ko or uz
get_title(obj) == IF obj.title_ko # <<>> THEN obj.title_ko ELSE obj.title_uz

get_content(obj) == IF obj.content_ko # <<>> THEN obj.content_ko ELSE obj.content_uz

get_document_title(obj) ==
    IF obj.document_ko # <<>> THEN obj.document_ko ELSE obj.document_uz

\* InformationDocumentsSerializer: the output has no `information' key
InformationDocumentsSerializer(obj) ==
    [id |-> obj.id, document_uz |-> obj.document_uz, document_ko |-> obj.document_ko,
     document_title |-> get_document_title(obj), has_file |-> TRUE]

\* NewsSerializer, NoticeSerializer, TranslationSerializer
NewsSerializer(obj) ==
    [id |-> obj.id, title_uz |-> obj.title_uz, title_ko |-> obj.title_ko,
     title |-> get_title(obj), content_uz |-> obj.content_uz,
     content_ko |-> obj.content_ko, content |-> get_content(obj),
     university |-> obj.university]

\* InformationSerializer: the same with the nested documents
InformationSerializer(obj) ==
    [id |-> obj.id, title_uz |-> obj.title_uz, title_ko |-> obj.title_ko,
     title |-> get_title(obj), content_uz |-> obj.content_uz,
     content_ko |-> obj.content_ko, content |-> get_content(obj),
     university |-> obj.university,
     documents |-> {InformationDocumentsSerializer(d) :
                        d \in {x \in InformationDocuments : x.information = obj.id}},
     document_count |-> Cardinality({x \in InformationDocuments : x.information = obj.id})]

Serialize(kind, obj) ==
    IF kind = "information" THEN InformationSerializer(obj) ELSE NewsSerializer(obj)

\* dict.get(key) of the validated attributes, '' standing for every falsy value
attr(attrs, key) == IF key \in DOMAIN attrs THEN attrs[key] ELSE <<>>

title_max_length == 200
title_min_length == 3
content_min_length == 10

\* the declared fields of NewsCreateUpdateSerializer (and its three copies) as
\* rest_framework runs them: a CharField that is not allow_null rejects None,
\* title_* has max_length, and the model's university key must be present
\* (unless partial) and name an existing University
NewsCreateUpdateSerializer_fields(data, partial) ==
    {k \in DOMAIN data.text : data.text[k] = None}
    \cup {k \in DOMAIN data.text \cap {"title_uz", "title_ko"} :
              data.text[k] # None /\ Len(strip(data.text[k])) > title_max_length}
    \cup (IF data.university = Absent
          THEN (IF partial THEN {} ELSE {"university"})
          ELSE (IF data.university \in University THEN {} ELSE {"university"}))

NewsCreateUpdateSerializer_validate_lengths(attrs) ==
    {k \in {"title_uz", "title_ko"} :
         attr(attrs, k) # <<>> /\ Len(strip(attr(attrs, k))) < title_min_length}
    \cup {k \in {"content_uz", "content_ko"} :
              attr(attrs, k) # <<>> /\ Len(strip(attr(attrs, k))) < content_min_length}

\* NewsCreateUpdateSerializer.validate (and its three copies): the keys of
\* the errors it raises
NewsCreateUpdateSerializer_validate(attrs) ==
    (IF attr(attrs, "title_uz") = <<>> /\ attr(attrs, "title_ko") = <<>>
     THEN {"title"} ELSE {})
    \cup (IF attr(attrs, "content_uz") = <<>> /\ attr(attrs, "content_ko") = <<>>
          THEN {"content"} ELSE {})
    \cup {k \in {"title_uz", "title_ko"} :
              attr(attrs, k) # <<>> /\ Len(strip(attr(attrs, k))) < title_min_length}
    \cup {k \in {"content_uz", "content_ko"} :
              attr(attrs, k) # <<>> /\ Len(strip(attr(attrs, k))) < content_min_length}

\* to_internal_value: the text keys stripped
NewsCreateUpdateSerializer_to_internal_value(data) ==
    [k \in DOMAIN data.text |-> strip(data.text[k])]

\* serializer.errors: field errors first, validate() only when there are none
NewsCreateUpdateSerializer_errors(data, partial) ==
    IF NewsCreateUpdateSerializer_fields(data, partial) # {}
    THEN NewsCreateUpdateSerializer_fields(data, partial)
    ELSE NewsCreateUpdateSerializer_validate(
             NewsCreateUpdateSerializer_to_internal_value(data))

\* serializer.save() without an instance: Model.objects.create(**validated_data);
\* a text column that was not given keeps the CharField default ''
NewsCreateUpdateSerializer_create(id, data) ==
    [id |-> id, university |-> data.university,
     title_uz |-> attr(NewsCreateUpdateSerializer_to_internal_value(data), "title_uz"),
     title_ko |-> attr(NewsCreateUpdateSerializer_to_internal_value(data), "title_ko"),
     content_uz |-> attr(NewsCreateUpdateSerializer_to_internal_value(data), "content_uz"),
     content_ko |-> attr(NewsCreateUpdateSerializer_to_internal_value(data), "content_ko")]

\* serializer.save() with an instance: every validated key is set on it
NewsCreateUpdateSerializer_update(instance, data) ==
    [k \in DOMAIN instance |->
        IF k \in DOMAIN data.text
        THEN NewsCreateUpdateSerializer_to_internal_value(data)[k]
        ELSE IF k = "university" /\ data.university # Absent
             THEN data.university
             ELSE instance[k]]

\* the declared fields of InformationDocumentsCreateUpdateSerializer: the
\* CharFields as above, file required, information required and existing
InformationDocumentsCreateUpdateSerializer_fields(data, partial) ==
    {k \in DOMAIN data.text : data.text[k] = None}
    \cup {k \in DOMAIN data.text :
              data.text[k] # None /\ Len(strip(data.text[k])) > title_max_length}
    \cup (IF data.file \/ partial THEN {} ELSE {"file"})
    \cup (IF data.information = Absent
          THEN (IF partial THEN {} ELSE {"information"})
          ELSE (IF \E i \in board["information"] : i.id = data.information
                THEN {} ELSE {"information"}))

\* InformationDocumentsCreateUpdateSerializer.validate
InformationDocumentsCreateUpdateSerializer_validate(attrs, information) ==
    (IF attr(attrs, "document_uz") = <<>> /\ attr(attrs, "document_ko") = <<>>
     THEN {"document_title"} ELSE {})
    \cup {k \in DocumentFields :
              attr(attrs, k) # <<>> /\ Len(strip(attr(attrs, k))) < title_min_length}
    \cup (IF information = Absent THEN {"information"} ELSE {})

InformationDocumentsCreateUpdateSerializer_errors(data, partial) ==
    IF InformationDocumentsCreateUpdateSerializer_fields(data, partial) # {}
    THEN InformationDocumentsCreateUpdateSerializer_fields(data, partial)
    ELSE InformationDocumentsCreateUpdateSerializer_validate(
             NewsCreateUpdateSerializer_to_internal_value(data), data.information)

InformationDocumentsCreateUpdateSerializer_create(id, data) ==
    [id |-> id, information |-> data.information,
     document_uz |-> attr(NewsCreateUpdateSerializer_to_internal_value(data), "document_uz"),
     document_ko |-> attr(NewsCreateUpdateSerializer_to_internal_value(data), "document_ko")]

InformationDocumentsCreateUpdateSerializer_update(instance, data) ==
    [k \in DOMAIN instance |->
        IF k \in DOMAIN data.text
        THEN NewsCreateUpdateSerializer_to_internal_value(data)[k]
        ELSE IF k = "information" /\ data.information # Absent
             THEN data.information
             ELSE instance[k]]

-----------------------------------------------------------------------------
(* Requests and responses *)

\* the body of a request that carries none
NoData == [text |-> <<>>, university |-> Absent, information |-> Absent, file |-> FALSE]

Request(op, kind, method, user, id, data) ==
    [op |-> op, kind |-> kind, method |-> method, user |-> user, id |-> id, data |-> data]

\* no request is being served
Idle == Request("none", "none", "GET", 0, 0, NoData)

\* a view is entered with the request the server received; requests are
\* served one at a time
serve(req) == request = Idle /\ request' = req

\* Response(body, status): body is the set of serialized rows returned, errors
\* the keys of field_errors
Response(status, body, errors) == [status |-> status, body |-> body, errors |-> errors]

NoResponse == Response(0, {}, {})

\* rows created so far through the API
Created == (sequences["news"] - 1) + (sequences["notice"] - 1)
           + (sequences["translation"] - 1) + (sequences["information"] - 1)
           + (sequences["document"] - 1)

\* Model.objects.get(id=...): the rows with that primary key (none or one)
get(queryset, id) == {r \in queryset : r.id = id}

\* the data the view hands to the serializer: process_form_data(request.data)
processed(data) == [data EXCEPT !.text = process_form_data(data.text)]

-----------------------------------------------------------------------------
(* News, Notice, Translation and Information views (board/views.py).  The   *)
(* four families are copies of one another; item_* is the common body and   *)
(* each view of the source is an action that instantiates it.               *)

item_list(kind, user) ==
    /\ serve(Request("list", kind, "GET", user, 0, NoData))
    /\ response' =
        IF ~is_staff(user)
        THEN Response(HTTP_403_FORBIDDEN, {}, {})
        ELSE Response(HTTP_200_OK,
                      {Serialize(kind, r) : r \in filter_by_permissions(board[kind], user)},
                      {})
    /\ UNCHANGED <<tables, sequences>>

item_detail(kind, user, id) ==
    /\ serve(Request("detail", kind, "GET", user, id, NoData))
    /\ response' =
        IF ~is_staff(user)
        THEN Response(HTTP_403_FORBIDDEN, {}, {})
        ELSE IF get(board[kind], id) = {}
        THEN Response(HTTP_404_NOT_FOUND, {}, {})
        ELSE IF \E r \in get(board[kind], id) : other_university(user, r.university)
        THEN Response(HTTP_403_FORBIDDEN, {}, {})
        ELSE Response(HTTP_200_OK, {Serialize(kind, r) : r \in get(board[kind], id)}, {})
    /\ UNCHANGED <<tables, sequences>>


create_data_client(user, data) == processed(data)

\* the body the serializer sees on create: for university_staff the view
\* overwrites data['university'] with the user's own university
create_data(user, data) ==
    IF in_group(user, "university_staff")
    THEN [processed(data) EXCEPT !.university = get_user_university(user)]
    ELSE processed(data)

item_create(kind, user, data) ==
    /\ serve(Request("create", kind, "POST", user, 0, data))
    /\ IF ~is_staff(user)
       THEN /\ response' = Response(HTTP_403_FORBIDDEN, {}, {})
            /\ UNCHANGED <<tables, sequences>>
       ELSE IF in_group(user, "university_staff")
               /\ get_user_university(user) = NoUniversity
       THEN /\ response' = Response(HTTP_400_BAD_REQUEST, {}, {"university_not_found"})
            /\ UNCHANGED <<tables, sequences>>
       ELSE IF NewsCreateUpdateSerializer_errors(create_data(user, data), FALSE) # {}
       THEN /\ response' = Response(HTTP_400_BAD_REQUEST, {},
                    NewsCreateUpdateSerializer_errors(create_data(user, data), FALSE))
            /\ UNCHANGED <<tables, sequences>>
       ELSE LET obj == NewsCreateUpdateSerializer_create(sequences[kind],
                                                         create_data(user, data))
            IN /\ board' = [board EXCEPT ![kind] = @ \cup {obj}]
               /\ sequences' = [sequences EXCEPT ![kind] = @ + 1]
               /\ response' = Response(HTTP_201_CREATED, {Serialize(kind, obj)}, {})
               /\ UNCHANGED <<University, auth_user, UniversityManager,
                              InformationDocuments, management>>

update_data_client(user, instance, data) == processed(data)

\* the body the serializer sees on update: for university_staff the view
\* overwrites data['university'] with the university of the stored row
update_data(user, instance, data) ==
    IF in_group(user, "university_staff")
    THEN [processed(data) EXCEPT !.university = instance.university]
    ELSE processed(data)

item_update(kind, user, id, data, method) ==
    /\ serve(Request("update", kind, method, user, id, data))
    /\ IF ~is_staff(user)
       THEN /\ response' = Response(HTTP_403_FORBIDDEN, {}, {})
            /\ UNCHANGED <<tables, sequences>>
       ELSE IF get(board[kind], id) = {}
       THEN /\ response' = Response(HTTP_404_NOT_FOUND, {}, {})
            /\ UNCHANGED <<tables, sequences>>
       ELSE LET instance == CHOOSE r \in board[kind] : r.id = id
                errors == NewsCreateUpdateSerializer_errors(
                              update_data(user, instance, data), method = "PATCH")
                obj == NewsCreateUpdateSerializer_update(
                           instance, update_data(user, instance, data))
            IN IF other_university(user, instance.university)
               THEN /\ response' = Response(HTTP_403_FORBIDDEN, {}, {})
                    /\ UNCHANGED <<tables, sequences>>
               ELSE IF errors # {}
               THEN /\ response' = Response(HTTP_400_BAD_REQUEST, {}, errors)
                    /\ UNCHANGED <<tables, sequences>>
               ELSE /\ board' = [board EXCEPT ![kind] = (@ \ {instance}) \cup {obj}]
                    /\ response' = Response(HTTP_200_OK, {Serialize(kind, obj)}, {})
                    /\ UNCHANGED <<University, auth_user, UniversityManager,
                                   InformationDocuments, management,
                                   sequences>>

item_delete_early(kind, user, id) ==
    /\ serve(Request("delete", kind, "DELETE", user, id, NoData))
    /\ IF ~is_staff(user)
       THEN /\ response' = Response(HTTP_403_FORBIDDEN, {}, {})
            /\ UNCHANGED <<tables, sequences>>
       ELSE IF get(board[kind], id) = {}
       THEN /\ response' = Response(HTTP_404_NOT_FOUND, {}, {})
            /\ UNCHANGED <<tables, sequences>>
       ELSE LET instance == CHOOSE r \in board[kind] : r.id = id
            IN /\ board' = [board EXCEPT ![kind] = @ \ {instance}]
               /\ InformationDocuments' =
                      IF kind = "information"
                      THEN {d \in InformationDocuments : d.information # id}
                      ELSE InformationDocuments
               /\ response' = IF other_university(user, instance.university)
                              THEN Response(HTTP_403_FORBIDDEN, {}, {})
                              ELSE Response(HTTP_200_OK, {}, {})
               /\ UNCHANGED <<University, auth_user, UniversityManager,
                              management, sequences>>

item_delete_filtered(kind, user, id) ==
    /\ serve(Request("delete", kind, "DELETE", user, id, NoData))
    /\ IF ~is_staff(user)
       THEN /\ response' = Response(HTTP_403_FORBIDDEN, {}, {})
            /\ UNCHANGED <<tables, sequences>>
       ELSE IF get(filter_by_permissions(board[kind], user), id) = {}
       THEN /\ response' = Response(HTTP_404_NOT_FOUND, {}, {})
            /\ UNCHANGED <<tables, sequences>>
       ELSE LET instance == CHOOSE r \in board[kind] : r.id = id
            IN /\ board' = [board EXCEPT ![kind] = @ \ {instance}]
               /\ InformationDocuments' =
                      IF kind = "information"
                      THEN {d \in InformationDocuments : d.information # id}
                      ELSE InformationDocuments
               /\ response' = Response(HTTP_200_OK, {}, {})
               /\ UNCHANGED <<University, auth_user, UniversityManager,
                              management, sequences>>

\* instance.delete(): the documents of an Information go with it
\* (InformationDocuments.information is on_delete=CASCADE)
item_delete(kind, user, id) ==
    /\ serve(Request("delete", kind, "DELETE", user, id, NoData))
    /\ IF ~is_staff(user)
       THEN /\ response' = Response(HTTP_403_FORBIDDEN, {}, {})
            /\ UNCHANGED <<tables, sequences>>
       ELSE IF get(board[kind], id) = {}
       THEN /\ response' = Response(HTTP_404_NOT_FOUND, {}, {})
            /\ UNCHANGED <<tables, sequences>>
       ELSE LET instance == CHOOSE r \in board[kind] : r.id = id
            IN IF other_university(user, instance.university)
               THEN /\ response' = Response(HTTP_403_FORBIDDEN, {}, {})
                    /\ UNCHANGED <<tables, sequences>>
               ELSE /\ board' = [board EXCEPT ![kind] = @ \ {instance}]
                    /\ InformationDocuments' =
                           IF kind = "information"
                           THEN {d \in InformationDocuments : d.information # id}
                           ELSE InformationDocuments
                    /\ response' = Response(HTTP_200_OK, {}, {})
                    /\ UNCHANGED <<University, auth_user, UniversityManager,
                                   management, sequences>>

-----------------------------------------------------------------------------
(* Information document views (board/views.py) *)

\* document.information.university
document_university(document) ==
    (CHOOSE i \in board["information"] : i.id = document.information).university

information_documents_list(user) ==
    /\ serve(Request("list", "document", "GET", user, 0, NoData))
    /\ response' =
        IF ~is_staff(user)
        THEN Response(HTTP_403_FORBIDDEN, {}, {})
        ELSE IF in_group(user, "university_staff")
        THEN Response(HTTP_200_OK,
                      {InformationDocumentsSerializer(d) :
                          d \in {x \in InformationDocuments :
                                    /\ get_user_university(user) # NoUniversity
                                    /\ document_university(x) = get_user_university(user)}},
                      {})
        ELSE Response(HTTP_200_OK,
                      {InformationDocumentsSerializer(d) : d \in InformationDocuments}, {})
    /\ UNCHANGED <<tables, sequences>>

information_document_detail(user, id) ==
    /\ serve(Request("detail", "document", "GET", user, id, NoData))
    /\ response' =
        IF ~is_staff(user)
        THEN Response(HTTP_403_FORBIDDEN, {}, {})
        ELSE IF get(InformationDocuments, id) = {}
        THEN Response(HTTP_404_NOT_FOUND, {}, {})
        ELSE IF \E d \in get(InformationDocuments, id) :
                    other_university(user, document_university(d))
        THEN Response(HTTP_403_FORBIDDEN, {}, {})
        ELSE Response(HTTP_200_OK,
                      {InformationDocumentsSerializer(d) :
                          d \in get(InformationDocuments, id)}, {})
    /\ UNCHANGED <<tables, sequences>>

information_document_create(user, data) ==
    /\ serve(Request("create", "document", "POST", user, 0, data))
    /\ IF ~is_staff(user)
       THEN /\ response' = Response(HTTP_403_FORBIDDEN, {}, {})
            /\ UNCHANGED <<tables, sequences>>
       ELSE IF in_group(user, "university_staff")
               /\ get(board["information"], processed(data).information) = {}
       THEN /\ response' = Response(HTTP_400_BAD_REQUEST, {}, {"information_not_found"})
            /\ UNCHANGED <<tables, sequences>>
       ELSE IF \E i \in get(board["information"], processed(data).information) :
                   other_university(user, i.university)
       THEN /\ response' = Response(HTTP_403_FORBIDDEN, {}, {})
            /\ UNCHANGED <<tables, sequences>>
       ELSE IF InformationDocumentsCreateUpdateSerializer_errors(processed(data), FALSE) # {}
       THEN /\ response' = Response(HTTP_400_BAD_REQUEST, {},
                    InformationDocumentsCreateUpdateSerializer_errors(processed(data), FALSE))
            /\ UNCHANGED <<tables, sequences>>
       ELSE LET obj == InformationDocumentsCreateUpdateSerializer_create(
                           sequences["document"], processed(data))
            IN /\ InformationDocuments' = InformationDocuments \cup {obj}
               /\ sequences' = [sequences EXCEPT !["document"] = @ + 1]
               /\ response' = Response(HTTP_201_CREATED,
                                       {InformationDocumentsSerializer(obj)}, {})
               /\ UNCHANGED <<University, auth_user, UniversityManager, board,
                              management>>

information_document_update(user, id, data, method) ==
    /\ serve(Request("update", "document", method, user, id, data))
    /\ IF ~is_staff(user)
       THEN /\ response' = Response(HTTP_403_FORBIDDEN, {}, {})
            /\ UNCHANGED <<tables, sequences>>
       ELSE IF get(InformationDocuments, id) = {}
       THEN /\ response' = Response(HTTP_404_NOT_FOUND, {}, {})
            /\ UNCHANGED <<tables, sequences>>
       ELSE LET document == CHOOSE d \in InformationDocuments : d.id = id
                errors == InformationDocumentsCreateUpdateSerializer_errors(
                              processed(data), method = "PATCH")
                obj == InformationDocumentsCreateUpdateSerializer_update(
                           document, processed(data))
            IN IF other_university(user, document_university(document))
               THEN /\ response' = Response(HTTP_403_FORBIDDEN, {}, {})
                    /\ UNCHANGED <<tables, sequences>>
               ELSE IF errors # {}
               THEN /\ response' = Response(HTTP_400_BAD_REQUEST, {}, errors)
                    /\ UNCHANGED <<tables, sequences>>
               ELSE /\ InformationDocuments' = (InformationDocuments \ {document}) \cup {obj}
                    /\ response' = Response(HTTP_200_OK,
                                            {InformationDocumentsSerializer(obj)}, {})
                    /\ UNCHANGED <<University, auth_user, UniversityManager, board,
                                   management, sequences>>

information_document_delete(user, id) ==
    /\ serve(Request("delete", "document", "DELETE", user, id, NoData))
    /\ IF ~is_staff(user)
       THEN /\ response' = Response(HTTP_403_FORBIDDEN, {}, {})
            /\ UNCHANGED <<tables, sequences>>
       ELSE IF get(InformationDocuments, id) = {}
       THEN /\ response' = Response(HTTP_404_NOT_FOUND, {}, {})
            /\ UNCHANGED <<tables, sequences>>
       ELSE LET document == CHOOSE d \in InformationDocuments : d.id = id
            IN IF other_university(user, document_university(document))
               THEN /\ response' = Response(HTTP_403_FORBIDDEN, {}, {})
                    /\ UNCHANGED <<tables, sequences>>
               ELSE /\ InformationDocuments' = InformationDocuments \ {document}
                    /\ response' = Response(HTTP_200_OK, {}, {})
                    /\ UNCHANGED <<University, auth_user, UniversityManager, board,
                                   management, sequences>>

-----------------------------------------------------------------------------
(* Management list views (management/views.py) *)

\* Student.objects.all()[:1] for everyone outside upsight_staff
students_list(user) ==
    /\ serve(Request("students_list", "student", "GET", user, 0, NoData))
    /\ response' =
        IF in_group(user, "upsight_staff")
        THEN Response(HTTP_200_OK, {[id |-> Student[i].id] : i \in 1..Len(Student)}, {})
        ELSE Response(HTTP_200_OK,
                      {[id |-> Student[i].id] : i \in 1..(IF Len(Student) > 0 THEN 1 ELSE 0)},
                      {})
    /\ UNCHANGED <<tables, sequences>>

\* Class.objects.all(), whoever asks
classes_list(user) ==
    /\ serve(Request("classes_list", "class", "GET", user, 0, NoData))
    /\ response' = Response(HTTP_200_OK, {[id |-> c.id] : c \in Class}, {})
    /\ UNCHANGED <<tables, sequences>>

\* ClassTimeTable.objects.filter(class_model_id=class_id), whoever asks
class_timetables(user, class_id) ==
    /\ serve(Request("class_timetables", "timetable", "GET", user, class_id, NoData))
    /\ response' = Response(HTTP_200_OK,
                            {[id |-> t.id] : t \in {x \in ClassTimeTable :
                                                       x.class_model = class_id}}, {})
    /\ UNCHANGED <<tables, sequences>>

-----------------------------------------------------------------------------
(* The specification *)

\* the tables no board request reads, empty
NoOtherManagement ==
    /\ OrganManager = {}
    /\ saving = NoSave
    /\ Enterance = {}
    /\ EnteranceStudentRegistration = {}
    /\ ClassStudentRegistration = {}
    /\ StudentRegistration = {}
    /\ EnterancePayment = {}
    /\ ClassPayment = {}
    /\ receiver = NoInstance
    /\ returned = NoValue

\* The database as the admin site set it up before the first API request:
\* two universities; an employee user (1), the managers of university 1 (2)
\* and of university 2 (3), a manager of university 1 who was also put in
\* upsight_staff (4), a user in neither staff group (5), a university_staff
\* user without a manager row (6) and an employee user who was also put in
\* university_staff (7); no board rows.
Init ==
    /\ University = {1, 2}
    /\ auth_user =
           <<AuthUser(<<"e", "1">>, make_password(<<"a">>), {"upsight_staff"}),
             AuthUser(str(2), make_password(<<"a">>), {"university_staff"}),
             AuthUser(str(3), make_password(<<"a">>), {"university_staff"}),
             AuthUser(str(4), make_password(<<"a">>), {"upsight_staff", "university_staff"}),
             AuthUser(<<"g", "5">>, make_password(<<"a">>), {}),
             AuthUser(<<"g", "6">>, make_password(<<"a">>), {"university_staff"}),
             AuthUser(<<"e", "7">>, make_password(<<"a">>),
                      {"upsight_staff", "university_staff"})>>
    /\ UniversityManager =
           {[id |-> 1, user |-> 2, university |-> 1, manager_id |-> 2,
             password |-> make_password(<<"a">>)],
            [id |-> 2, user |-> 3, university |-> 2, manager_id |-> 3,
             password |-> make_password(<<"a">>)],
            [id |-> 3, user |-> 4, university |-> 1, manager_id |-> 4,
             password |-> make_password(<<"a">>)]}
    /\ Employee =
           {[id |-> 1, user |-> 1, employee_id |-> <<"e", "1">>,
             password |-> make_password(<<"a">>)],
            [id |-> 2, user |-> 7, employee_id |-> <<"e", "7">>,
             password |-> make_password(<<"a">>)]}
    /\ NoOtherManagement
    /\ board = [k \in Kinds |-> {}]
    /\ InformationDocuments = {}
    /\ Student = <<[id |-> 2, name_ko |-> Ko(3), name_uz |-> Uz(3)],
                   [id |-> 1, name_ko |-> <<>>, name_uz |-> Uz(3)]>>
    /\ Class = {ClassRow(1, 1, 1)}
    /\ ClassTimeTable = {[id |-> 1, class_model |-> 1]}
    /\ sequences = [t \in Tables |-> 1]
    /\ scan = PrimaryKeyScan
    /\ request = Idle
    /\ response = NoResponse

Users == DOMAIN auth_user

\* primary keys a request may name: those of the stored rows of the table and
\* one that no row of it has
Ids(kind) ==
    {r.id : r \in (IF kind = "document" THEN InformationDocuments ELSE board[kind])}
        \cup {sequences[kind]}

Methods == {"PUT", "PATCH"}

\* values of the university key of a body: absent, the universities, and a
\* primary key no University has
UniversityInputs == {Absent} \cup University \cup {3}

\* text keys of a board body: a complete one, and one without content
ValidText == [title_uz |-> Str(3), content_uz |-> Str(10)]
TitleOnly == [title_uz |-> Str(3)]

\* bodies of board writes: the complete text with every university value,
\* and a body that fails validation
BoardInputs ==
    {[text |-> ValidText, university |-> u, information |-> Absent, file |-> FALSE] :
        u \in UniversityInputs}
    \cup {[text |-> TitleOnly, university |-> 1, information |-> Absent, file |-> FALSE]}

\* bodies of document writes: a titled file under every information value,
\* and bodies that fail validation (no title, no file)
DocumentInputs ==
    {[text |-> [document_uz |-> Str(3)], university |-> Absent, information |-> i,
      file |-> TRUE] : i \in {Absent} \cup Ids("information")}
    \cup {[text |-> <<>>, university |-> Absent, information |-> 1, file |-> TRUE],
          [text |-> [document_uz |-> Str(3)], university |-> Absent, information |-> 1,
           file |-> FALSE]}

news_list ==
    /\ request = Idle
    /\ \E u \in Users : item_list("news", u)

news_detail ==
    /\ request = Idle
    /\ \E u \in Users, id \in Ids("news") : item_detail("news", u, id)

news_create ==
    /\ request = Idle
    /\ Created < MaxCreates
    /\ \E u \in Users, d \in BoardInputs : item_create("news", u, d)

news_update ==
    /\ request = Idle
    /\ \E u \in Users, id \in Ids("news"), d \in BoardInputs, m \in Methods :
           item_update("news", u, id, d, m)

news_delete ==
    /\ request = Idle
    /\ \E u \in Users, id \in Ids("news") : item_delete("news", u, id)

notices_list ==
    /\ request = Idle
    /\ \E u \in Users : item_list("notice", u)

notice_detail ==
    /\ request = Idle
    /\ \E u \in Users, id \in Ids("notice") : item_detail("notice", u, id)

notice_create ==
    /\ request = Idle
    /\ Created < MaxCreates
    /\ \E u \in Users, d \in BoardInputs : item_create("notice", u, d)

notice_update ==
    /\ request = Idle
    /\ \E u \in Users, id \in Ids("notice"), d \in BoardInputs, m \in Methods :
           item_update("notice", u, id, d, m)

notice_delete ==
    /\ request = Idle
    /\ \E u \in Users, id \in Ids("notice") : item_delete("notice", u, id)

translations_list ==
    /\ request = Idle
    /\ \E u \in Users : item_list("translation", u)

translation_detail ==
    /\ request = Idle
    /\ \E u \in Users, id \in Ids("translation") : item_detail("translation", u, id)

translation_create ==
    /\ request = Idle
    /\ Created < MaxCreates
    /\ \E u \in Users, d \in BoardInputs : item_create("translation", u, d)

translation_update ==
    /\ request = Idle
    /\ \E u \in Users, id \in Ids("translation"), d \in BoardInputs, m \in Methods :
           item_update("translation", u, id, d, m)

translation_delete ==
    /\ request = Idle
    /\ \E u \in Users, id \in Ids("translation") : item_delete("translation", u, id)

information_list ==
    /\ request = Idle
    /\ \E u \in Users : item_list("information", u)

information_detail ==
    /\ request = Idle
    /\ \E u \in Users, id \in Ids("information") : item_detail("information", u, id)

information_create ==
    /\ request = Idle
    /\ Created < MaxCreates
    /\ \E u \in Users, d \in BoardInputs : item_create("information", u, d)

information_update ==
    /\ request = Idle
    /\ \E u \in Users, id \in Ids("information"), d \in BoardInputs, m \in Methods :
           item_update("information", u, id, d, m)

information_delete ==
    /\ request = Idle
    /\ \E u \in Users, id \in Ids("information") : item_delete("information", u, id)

documents_list ==
    /\ request = Idle
    /\ \E u \in Users : information_documents_list(u)

document_detail ==
    /\ request = Idle
    /\ \E u \in Users, id \in Ids("document") : information_document_detail(u, id)

document_create ==
    /\ request = Idle
    /\ Created < MaxCreates
    /\ \E u \in Users, d \in DocumentInputs : information_document_create(u, d)

document_update ==
    /\ request = Idle
    /\ \E u \in Users, id \in Ids("document"), d \in DocumentInputs, m \in Methods :
           information_document_update(u, id, d, m)

document_delete ==
    /\ request = Idle
    /\ \E u \in Users, id \in Ids("document") : information_document_delete(u, id)

\* the response has gone out; the server takes the next request

next_request ==
    /\ request # Idle
    /\ request' = Idle
    /\ response' = NoResponse
    /\ UNCHANGED <<tables, sequences>>

students ==
    /\ request = Idle
    /\ \E u \in Users : students_list(u)

classes ==
    /\ request = Idle
    /\ \E u \in Users : classes_list(u)

timetables ==
    /\ request = Idle
    /\ \E u \in Users, c \in ids(Class) : class_timetables(u, c)
Next ==
    \/ news_list \/ news_detail \/ news_create \/ news_update \/ news_delete
    \/ notices_list \/ notice_detail \/ notice_create \/ notice_update \/ notice_delete
    \/ translations_list \/ translation_detail \/ translation_create
    \/ translation_update \/ translation_delete
    \/ information_list \/ information_detail \/ information_create
    \/ information_update \/ information_delete
    \/ documents_list \/ document_detail \/ document_create
    \/ document_update \/ document_delete
    \/ students \/ classes \/ timetables
    \/ next_request

Spec == Init /\ [][Next]_vars

-----------------------------------------------------------------------------
(* Vocabulary of the claims *)

\* the rows of a table, board or documents
TableOf(kind) == IF kind = "document" THEN InformationDocuments ELSE board[kind]

\* the university that owns a row: its own, or its parent Information's
owner(kind, row) == IF kind = "document" THEN document_university(row) ELSE row.university

\* a university_staff principal with a UniversityManager link
bound(user) == in_group(user, "university_staff") /\ get_user_university(user) # NoUniversity

\* the scope section 4.2 of the specification gives a principal
in_scope(user, kind, row) ==
    \/ in_group(user, "upsight_staff")
    \/ bound(user) /\ owner(kind, row) = get_user_university(user)

\* the stored rows a response body shows
shown(kind) == {r \in TableOf(kind) : \E b \in response.body : b.id = r.id}

ListOps == request.op = "list" /\ request.kind \in Tables

-----------------------------------------------------------------------------
(* C1 *)

\* C1 (as stated): every board list called by a university_staff principal
\* bound to university U returns only rows owned by U.
C1_AsStated ==
    (ListOps /\ bound(request.user))
        => \A r \in shown(request.kind) :
               owner(request.kind, r) = get_user_university(request.user)

\* C1 (amended): every board list called by a university_staff principal that
\* is bound to university U and is not also in upsight_staff returns only rows
\* owned by U (for documents: rows whose parent Information is owned by U).
C1_ScopedListReturnsOwnRows ==
    (ListOps /\ bound(request.user) /\ ~in_group(request.user, "upsight_staff"))
        => /\ response.status = HTTP_200_OK
           /\ \A r \in shown(request.kind) :
                  owner(request.kind, r) = get_user_university(request.user)

\* a scoped principal has listed a table that holds a row of its own university,
\* which it is shown, and a row of another university
C1_Witness ==
    /\ ListOps /\ bound(request.user) /\ ~in_group(request.user, "upsight_staff")
    /\ shown(request.kind) # {}
    /\ \E r \in TableOf(request.kind) :
           owner(request.kind, r) # get_user_university(request.user)

-----------------------------------------------------------------------------
(* C2 *)

\* C2: get by a bound university_staff principal of an existing board row that
\* another university owns is refused with 403 and returns none of the row.
C2_CrossUniversityGetIsForbidden ==
    (/\ request.op = "detail" /\ request.kind \in Tables
     /\ bound(request.user)
     /\ \E r \in TableOf(request.kind) :
            r.id = request.id /\ owner(request.kind, r) # get_user_university(request.user))
        => response.status = HTTP_403_FORBIDDEN /\ response.body = {}

C2_Witness ==
    /\ request.op = "detail" /\ request.kind = "document"
    /\ bound(request.user)
    /\ \E r \in InformationDocuments :
           r.id = request.id /\ document_university(r) # get_user_university(request.user)
    /\ response.status = HTTP_403_FORBIDDEN

-----------------------------------------------------------------------------
(* C3 *)

\* C3: a board item created by a bound university_staff principal is stored
\* under the principal's university, whatever university the body named.
C3_CreateForcesOwnUniversity ==
    (/\ request.op = "create" /\ request.kind \in Kinds
     /\ bound(request.user)
     /\ response.status = HTTP_201_CREATED)
        => /\ shown(request.kind) # {}
           /\ \A r \in shown(request.kind) :
                  r.university = get_user_university(request.user)
           /\ \A b \in response.body : b.university = get_user_university(request.user)

\* the body named a university that is not the principal's
C3_Witness ==
    /\ request.op = "create" /\ request.kind \in Kinds
    /\ bound(request.user)
    /\ response.status = HTTP_201_CREATED
    /\ request.data.university \in University \ {get_user_university(request.user)}

-----------------------------------------------------------------------------
(* C4 *)

\* C4: an update (PUT or PATCH) served for a university_staff principal leaves
\* the owning university of every row of the table as it was.
C4_UpdateKeepsUniversity ==
    [][(request'.op = "update" /\ request'.kind \in Kinds
        /\ in_group(request'.user, "university_staff"))
          => \A r \in board[request'.kind] : \A q \in board'[request'.kind] :
                 q.id = r.id => q.university = r.university]_vars

\* an update by a university_staff principal went through although its body
\* named another university than the row's
C4_Witness ==
    /\ request.op = "update" /\ request.kind \in Kinds
    /\ in_group(request.user, "university_staff")
    /\ response.status = HTTP_200_OK
    /\ \E r \in board[request.kind] :
           /\ r.id = request.id
           /\ request.data.university \in University \ {r.university}

-----------------------------------------------------------------------------
(* C5 *)

\* C5: every InformationDocuments row that a bound university_staff principal
\* has created or updated hangs under an existing Information of the
\* principal's university.
C5_DocumentStaysInScope ==
    (/\ request.op \in {"create", "update"} /\ request.kind = "document"
     /\ bound(request.user)
     /\ response.status \in {HTTP_200_OK, HTTP_201_CREATED})
        => \A d \in shown("document") :
               /\ \E i \in board["information"] : i.id = d.information
               /\ document_university(d) = get_user_university(request.user)

-----------------------------------------------------------------------------
(* C6 *)

\* C6: get, update and delete of a board row by a principal in upsight_staff
\* are never refused with 403, whatever other groups the principal is in.
C6_GlobalStaffNeverForbidden ==
    (/\ request.op \in {"detail", "update", "delete"} /\ request.kind \in Tables
     /\ in_group(request.user, "upsight_staff"))
        => response.status # HTTP_403_FORBIDDEN

-----------------------------------------------------------------------------
(* C7 *)

\* C7: a board list called by a principal in upsight_staff returns every
\* stored row of the table.
C7_GlobalStaffListsEverything ==
    (ListOps /\ in_group(request.user, "upsight_staff"))
        => /\ response.status = HTTP_200_OK
           /\ shown(request.kind) = TableOf(request.kind)

-----------------------------------------------------------------------------
(* C8 *)

\* C8: an authenticated principal in neither upsight_staff nor
\* university_staff has an empty scope: no list operation (board lists,
\* students_list, classes_list, class_timetables) returns a row to it.
C8_AsStated ==
    (/\ request.op \in {"list", "students_list", "classes_list", "class_timetables"}
     /\ ~is_staff(request.user))
        => response.body = {}

-----------------------------------------------------------------------------
(* C9 *)

\* C9: a request answered with a validation (400), permission (403) or
\* not-found (404) failure leaves every table as it was; an update of a Notice
\* by a bound university_staff principal of another university is answered
\* with 403.
C9_FailureLeavesRowsUnchanged ==
    [][/\ (response'.status \in {HTTP_400_BAD_REQUEST, HTTP_403_FORBIDDEN,
                                 HTTP_404_NOT_FOUND})
              => UNCHANGED <<tables, sequences>>
       /\ (/\ request'.op = "update" /\ request'.kind = "notice"
           /\ bound(request'.user)
           /\ \E r \in board["notice"] :
                  r.id = request'.id /\ r.university # get_user_university(request'.user))
              => /\ response'.status = HTTP_403_FORBIDDEN
                 /\ UNCHANGED <<tables, sequences>>]_vars

\* Scenario B has happened: a manager of one university has tried to update a
\* Notice of the other with a body that would have been valid
C9_Witness ==
    /\ request.op = "update" /\ request.kind = "notice"
    /\ bound(request.user) /\ ~in_group(request.user, "upsight_staff")
    /\ request.data.text = ValidText
    /\ \E r \in board["notice"] :
           r.id = request.id /\ r.university # get_user_university(request.user)
    /\ response.status = HTTP_403_FORBIDDEN

-----------------------------------------------------------------------------
(* C10 *)

\* C10: for a staff principal, get/update/delete answer 404 exactly when no
\* row has the id, and answer 403 when the row exists outside the principal's
\* scope.
C10_NotFoundOnlyWhenAbsent ==
    [][(/\ request'.op \in {"detail", "update", "delete"} /\ request'.kind \in Tables
        /\ is_staff(request'.user))
          => /\ (response'.status = HTTP_404_NOT_FOUND)
                    <=> (get(TableOf(request'.kind), request'.id) = {})
             /\ \A r \in get(TableOf(request'.kind), request'.id) :
                    ~in_scope(request'.user, request'.kind, r)
                        => response'.status = HTTP_403_FORBIDDEN]_vars

\* a delete of an existing row outside the principal's scope was refused
C10_Witness ==
    /\ request.op = "delete" /\ request.kind \in Tables
    /\ is_staff(request.user)
    /\ \E r \in get(TableOf(request.kind), request.id) :
           ~in_scope(request.user, request.kind, r)
    /\ response.status = HTTP_403_FORBIDDEN

-----------------------------------------------------------------------------
(* C11 *)

\* a university_staff principal without a UniversityManager link
unlinked(user) == in_group(user, "university_staff") /\ get_user_university(user) = NoUniversity

\* C11: every board operation (list, get, create, update, delete) attempted
\* by a university_staff principal without a UniversityManager link is
\* answered with a 4xx status.
C11_UnlinkedStaffAlwaysFails ==
    (/\ request.op \in {"list", "detail", "create", "update", "delete"}
     /\ request.kind \in Tables
     /\ unlinked(request.user) /\ ~in_group(request.user, "upsight_staff"))
        => response.status \in 400..499

-----------------------------------------------------------------------------
(* The board write endpoints under bilingual text input: a second           *)
(* specification over the same tables, with bodies that differ in which     *)
(* side of each pair they carry and how each side is written.               *)

\* rows created through the board API in one behaviour of TextSpec
MaxTextRows == 1

\* the only row before the first request: an Information of university 1
\* that was written with both sides of both pairs
TextInit ==
    /\ University = {1, 2}
    /\ auth_user = <<AuthUser(<<"e", "1">>, make_password(<<"a">>), {"upsight_staff"}),
                     AuthUser(str(2), make_password(<<"a">>), {"university_staff"})>>
    /\ UniversityManager =
           {[id |-> 1, user |-> 2, university |-> 1, manager_id |-> 2,
             password |-> make_password(<<"a">>)]}
    /\ Employee =
           {[id |-> 1, user |-> 1, employee_id |-> <<"e", "1">>,
             password |-> make_password(<<"a">>)]}
    /\ NoOtherManagement
    /\ board = [k \in Kinds |->
                  IF k = "information"
                  THEN {[id |-> 1, university |-> 1,
                         title_uz |-> Uz(3), title_ko |-> Ko(3),
                         content_uz |-> Uz(10), content_ko |-> Ko(10)]}
                  ELSE {}]
    /\ InformationDocuments = {}
    /\ Student = <<>>
    /\ Class = {}
    /\ ClassTimeTable = {}
    /\ sequences = [t \in Tables |-> IF t = "information" THEN 2 ELSE 1]
    /\ scan = PrimaryKeyScan
    /\ request = Idle
    /\ response = NoResponse

\* rows created since TextInit
TextCreated == Created - 1

\* a partial function given as a set of <<key, value>> pairs
FromPairs(pairs) == [k \in {p[1] : p \in pairs} |-> (CHOOSE p \in pairs : p[1] = k)[2]]

\* what a client may write on one side of a pair: nothing at all (the key is
\* absent), the empty string, or a text
Missing == <<"missing">>

\* the text keys of a body from one choice per key
TextOf(choice) == FromPairs({<<k, choice[k]>> : k \in {x \in DOMAIN choice : choice[x] # Missing}})

\* bodies that carry each side of the title and content pairs absent, empty
\* or filled
PairTexts ==
    {TextOf([title_uz |-> a, title_ko |-> b, content_uz |-> c, content_ko |-> d]) :
        a \in {Missing, <<>>, Uz(3)}, b \in {Missing, <<>>, Ko(3)},
        c \in {Missing, <<>>, Uz(10)}, d \in {Missing, Ko(10)}}

\* bodies whose text needs stripping or misses a length limit
EdgeTexts ==
    {[title_uz |-> <<" ">> \o Uz(3) \o <<" ">>, content_uz |-> Uz(10)],
     [title_uz |-> <<" ">> \o Uz(2), content_uz |-> Uz(10)],
     [title_ko |-> <<" ", " ">>, title_uz |-> Uz(3), content_ko |-> Ko(10) \o <<" ">>],
     [title_uz |-> Uz(3), content_uz |-> Uz(9)],
     [title_ko |-> Ko(title_max_length + 1), content_ko |-> Ko(10)],
     [title_ko |-> Ko(title_max_length + 1)]}

TextBoardInputs ==
    {[text |-> t, university |-> 1, information |-> Absent, file |-> FALSE] :
        t \in PairTexts \cup EdgeTexts}

TextDocumentInputs ==
    {[text |-> TextOf([document_uz |-> a, document_ko |-> b]), university |-> Absent,
      information |-> i, file |-> TRUE] :
        a \in {Missing, <<>>, Uz(3), Uz(2)}, b \in {Missing, <<" ">>, Ko(3)},
        i \in {Absent, 1}}

text_create ==
    /\ request = Idle
    /\ TextCreated < MaxTextRows
    /\ \E k \in Kinds, u \in Users, d \in TextBoardInputs : item_create(k, u, d)

text_update ==
    /\ request = Idle
    /\ \E k \in Kinds, u \in Users, id \in 1..(MaxTextRows + 1), d \in TextBoardInputs,
          m \in Methods :
           /\ get(board[k], id) # {}
           /\ item_update(k, u, id, d, m)

text_detail ==
    /\ request = Idle
    /\ \E k \in Kinds, id \in 1..(MaxTextRows + 1) :
           /\ get(board[k], id) # {}
           /\ item_detail(k, 1, id)

text_document_create ==
    /\ request = Idle
    /\ TextCreated < MaxTextRows
    /\ \E u \in Users, d \in TextDocumentInputs : information_document_create(u, d)

text_document_update ==
    /\ request = Idle
    /\ \E u \in Users, id \in 1..MaxTextRows, d \in TextDocumentInputs, m \in Methods :
           /\ get(InformationDocuments, id) # {}
           /\ information_document_update(u, id, d, m)

text_document_detail ==
    /\ request = Idle
    /\ \E id \in 1..MaxTextRows :
           /\ get(InformationDocuments, id) # {}
           /\ information_document_detail(1, id)

TextNext ==
    \/ text_create \/ text_update \/ text_detail
    \/ text_document_create \/ text_document_update \/ text_document_detail
    \/ next_request

TextSpec == TextInit /\ [][TextNext]_vars

-----------------------------------------------------------------------------
(* C12 *)

\* the two keys of a bilingual pair and the key validate() reports it under
Sides == [title |-> {"title_uz", "title_ko"}, content |-> {"content_uz", "content_ko"},
          document |-> {"document_uz", "document_ko"}]
PairKey == [title |-> "title", content |-> "content", document |-> "document_title"]
PairsOf(kind) == IF kind = "document" THEN {"document"} ELSE {"title", "content"}

\* a body carries nothing on either side of a pair: each key is absent or blank
EmptyPair(data, pair) ==
    \A k \in Sides[pair] : k \notin DOMAIN data.text \/ strip(data.text[k]) = <<>>

\* a stored row has a non-empty side in each of its pairs
Titled(kind, row) == \A p \in PairsOf(kind) : \E k \in Sides[p] : row[k] # <<>>

\* the request was a write that got as far as the serializer
ValidatedWrite ==
    /\ request.op \in {"create", "update"} /\ request.kind \in Tables
    /\ response.status \notin {HTTP_403_FORBIDDEN, HTTP_404_NOT_FOUND}
    /\ response.errors \cap {"university_not_found", "information_not_found"} = {}

\* C12 (as stated): every stored board row and document has a non-empty side
\* in each of its pairs, and a write whose body has both sides of a pair empty
\* is rejected with an error that names the pair (or a side of it).
C12_AsStated ==
    /\ \A kind \in Tables : \A r \in TableOf(kind) : Titled(kind, r)
    /\ ValidatedWrite
           => \A p \in PairsOf(request.kind) :
                  EmptyPair(request.data, p)
                      => /\ response.status = HTTP_400_BAD_REQUEST
                         /\ response.errors \cap ({PairKey[p]} \cup Sides[p]) # {}

\* C12 (amended): every stored board row and document has a non-empty side in
\* each of its pairs, and a write whose body has both sides of a pair empty is
\* rejected with 400; the errors name the pair unless a field of the body
\* failed its own check, and then they name the failed fields only.
C12_EveryPairHasASide ==
    /\ \A kind \in Tables : \A r \in TableOf(kind) : Titled(kind, r)
    /\ ValidatedWrite
           => \A p \in PairsOf(request.kind) :
                  EmptyPair(request.data, p)
                      => /\ response.status = HTTP_400_BAD_REQUEST
                         /\ \/ PairKey[p] \in response.errors
                            \/ /\ response.errors # {}
                               /\ response.errors \subseteq
                                      TextFields \cup DocumentFields
                                          \cup {"university", "information", "file"}

\* a row with an empty Korean title is stored, and an update whose body has
\* no title at all has been rejected under the key of the pair
C12_Witness ==
    /\ \E r \in board["news"] : r.title_ko = <<>> /\ r.title_uz # <<>>
    /\ ValidatedWrite /\ request.op = "update"
    /\ EmptyPair(request.data, "title")
    /\ response.status = HTTP_400_BAD_REQUEST
    /\ "title" \in response.errors

-----------------------------------------------------------------------------
(* C15 *)

\* C15: news_create with a valid title_uz, title_ko sent as the empty string
\* and valid content answers 201, and the resolved title it returns is
\* title_uz.
C15_EmptyKoreanTitleIsAccepted ==
    (/\ request.op = "create" /\ request.kind = "news"
     /\ DOMAIN request.data.text = {"title_uz", "title_ko", "content_uz"}
     /\ request.data.text.title_uz = Uz(3)
     /\ request.data.text.title_ko = <<>>
     /\ request.data.text.content_uz = Uz(10))
        => /\ response.status = HTTP_201_CREATED
           /\ \A b \in response.body : b.title = Uz(3)

-----------------------------------------------------------------------------
(* Bilingual accessors: the serializer methods and model helpers that pick   *)
(* one side of a pair.  ReadSpec hands every stored form of a pair to every  *)
(* accessor of its model.                                                    *)

\* Python's `a or b`: a unless it is falsy ('' or None)
Or(a, b) == IF a # <<>> /\ a # None THEN a ELSE b

\* management/serializers.py
StudentSerializer_get_name(obj) == Or(obj.name_ko, obj.name_uz)
StudentSerializer_get_guardian_name(obj) == Or(obj.guardian_name_ko, obj.guardian_name_uz)
AttachedDocumentSerializer_get_document_name(obj) ==
    Or(obj.document_name_ko, obj.document_name_uz)
CareerHistorySerializer_get_work_title(obj) == Or(obj.work_title_ko, obj.work_title_uz)
CareerHistorySerializer_get_region(obj) == Or(obj.region_ko, obj.region_uz)
CareerCounselSerializer_get_details(obj) == Or(obj.details_ko, obj.details_uz)

\* FinancePaymentSerializer.get_student_name on the dict the view builds:
\* obj.get('student_name_ko', '') or obj.get('student_name_uz', '')
FinancePaymentSerializer_get_student_name(obj) ==
    Or(attr(obj, "student_name_ko"), attr(obj, "student_name_uz"))

\* main/serializers.py: the language comes from ?language= through the context
main_NewsSerializer_get_title(obj, language) ==
    IF language = "ko" THEN obj.title_ko ELSE obj.title_uz
main_NewsSerializer_get_content(obj, language) ==
    IF language = "ko" THEN obj.content_ko ELSE obj.content_uz
ExperienceSerializer_get_experience(obj, language) ==
    IF language = "ko" THEN obj.experience_ko ELSE obj.experience_uz
GalleryItemSerializer_get_description(obj, language) ==
    IF language = "ko" THEN obj.description_ko ELSE obj.description_uz
FeedbackSerializer_get_fullname(obj, language) ==
    IF language = "ko" THEN obj.fullname_ko ELSE obj.fullname_uz

\* the model helpers: main.News.get_title and management.Student.get_name
News_get_title(self, language) == IF language = "ko" THEN self.title_ko ELSE self.title_uz
Student_get_name(self, language) == IF language = "ko" THEN self.name_ko ELSE self.name_uz

\* the pairs of each model, and whether its columns are null=True
PairsOfModel ==
    [board_News |-> {"title", "content"},
     board_InformationDocuments |-> {"document"},
     management_Student |-> {"name", "guardian_name"},
     management_AttachedDocument |-> {"document_name"},
     management_CareerHistory |-> {"work_title", "region"},
     management_CareerCounsel |-> {"details"},
     finance_payment |-> {"student_name"},
     main_News |-> {"title", "content"},
     main_Experience |-> {"experience"},
     main_GalleryItem |-> {"description"},
     main_Feedback |-> {"fullname"}]

Nullable == {"management_CareerCounsel", "main_News", "main_Experience",
             "main_GalleryItem", "main_Feedback"}

\* the column names of a pair
ko(pair) ==
    CASE pair = "title" -> "title_ko" [] pair = "content" -> "content_ko"
      [] pair = "document" -> "document_ko" [] pair = "name" -> "name_ko"
      [] pair = "guardian_name" -> "guardian_name_ko"
      [] pair = "document_name" -> "document_name_ko"
      [] pair = "work_title" -> "work_title_ko" [] pair = "region" -> "region_ko"
      [] pair = "details" -> "details_ko" [] pair = "student_name" -> "student_name_ko"
      [] pair = "experience" -> "experience_ko" [] pair = "description" -> "description_ko"
      [] pair = "fullname" -> "fullname_ko"
uz(pair) ==
    CASE pair = "title" -> "title_uz" [] pair = "content" -> "content_uz"
      [] pair = "document" -> "document_uz" [] pair = "name" -> "name_uz"
      [] pair = "guardian_name" -> "guardian_name_uz"
      [] pair = "document_name" -> "document_name_uz"
      [] pair = "work_title" -> "work_title_uz" [] pair = "region" -> "region_uz"
      [] pair = "details" -> "details_uz" [] pair = "student_name" -> "student_name_uz"
      [] pair = "experience" -> "experience_uz" [] pair = "description" -> "description_uz"
      [] pair = "fullname" -> "fullname_uz"

\* what a column of a pair may hold
KoValues(model) == {<<>>, <<" ">>, Ko(2)} \cup (IF model \in Nullable THEN {None} ELSE {})
UzValues(model) == {<<>>, Uz(2)} \cup (IF model \in Nullable THEN {None} ELSE {})

\* the objects of a model
Objects(model) ==
    {o \in [{ko(p) : p \in PairsOfModel[model]} \cup {uz(p) : p \in PairsOfModel[model]}
               -> KoValues(model) \cup UzValues(model)] :
        \A p \in PairsOfModel[model] :
            o[ko(p)] \in KoValues(model) /\ o[uz(p)] \in UzValues(model)}

ReadInit ==
    /\ University = {}
    /\ auth_user = <<>>
    /\ UniversityManager = {}
    /\ board = [k \in Kinds |-> {}]
    /\ InformationDocuments = {}
    /\ Student = <<>>
    /\ Class = {}
    /\ ClassTimeTable = {}
    /\ Employee = {}
    /\ OrganManager = {}
    /\ saving = NoSave
    /\ Enterance = {}
    /\ EnteranceStudentRegistration = {}
    /\ ClassStudentRegistration = {}
    /\ StudentRegistration = {}
    /\ EnterancePayment = {}
    /\ ClassPayment = {}
    /\ sequences = [t \in Tables |-> 1]
    /\ scan = PrimaryKeyScan
    /\ request = Idle
    /\ response = NoResponse
    /\ \E model \in DOMAIN PairsOfModel :
           \E o \in Objects(model) : receiver = [model |-> model, obj |-> o]
    /\ returned = NoValue

Returned(method, pair, language, result) ==
    [method |-> method, pair |-> pair, language |-> language, result |-> result]

\* a read serializer renders the object: every SerializerMethodField of a pair
to_representation ==
    /\ \E pair \in PairsOfModel[receiver.model] :
        LET obj == receiver.obj
        IN returned' =
            CASE receiver.model = "board_News" /\ pair = "title" ->
                     Returned("NewsSerializer.get_title", pair, "", get_title(obj))
              [] receiver.model = "board_News" /\ pair = "content" ->
                     Returned("NewsSerializer.get_content", pair, "", get_content(obj))
              [] receiver.model = "board_InformationDocuments" ->
                     Returned("InformationDocumentsSerializer.get_document_title", pair, "",
                              get_document_title(obj))
              [] receiver.model = "management_Student" /\ pair = "name" ->
                     Returned("StudentSerializer.get_name", pair, "",
                              StudentSerializer_get_name(obj))
              [] receiver.model = "management_Student" /\ pair = "guardian_name" ->
                     Returned("StudentSerializer.get_guardian_name", pair, "",
                              StudentSerializer_get_guardian_name(obj))
              [] receiver.model = "management_AttachedDocument" ->
                     Returned("AttachedDocumentSerializer.get_document_name", pair, "",
                              AttachedDocumentSerializer_get_document_name(obj))
              [] receiver.model = "management_CareerHistory" /\ pair = "work_title" ->
                     Returned("CareerHistorySerializer.get_work_title", pair, "",
                              CareerHistorySerializer_get_work_title(obj))
              [] receiver.model = "management_CareerHistory" /\ pair = "region" ->
                     Returned("CareerHistorySerializer.get_region", pair, "",
                              CareerHistorySerializer_get_region(obj))
              [] receiver.model = "management_CareerCounsel" ->
                     Returned("CareerCounselSerializer.get_details", pair, "",
                              CareerCounselSerializer_get_details(obj))
              [] receiver.model = "finance_payment" ->
                     Returned("FinancePaymentSerializer.get_student_name", pair, "",
                              FinancePaymentSerializer_get_student_name(obj))
              [] OTHER -> returned
    /\ receiver.model \notin {"main_News", "main_Experience", "main_GalleryItem",
                              "main_Feedback"}
    /\ UNCHANGED <<University, auth_user, UniversityManager, board, InformationDocuments, scan,
                   Student, Class, ClassTimeTable, Employee, OrganManager, saving, Enterance,
                   EnteranceStudentRegistration, ClassStudentRegistration,
                   StudentRegistration, EnterancePayment, ClassPayment, receiver,
                   sequences, request, response>>

\* ?language= as the main-site views read it: ko, uz, or anything else
Languages == {"ko", "uz", "en"}

\* a main-site serializer renders the object for a language, or a model
\* helper is called with one
get_with_language ==
    /\ \E pair \in PairsOfModel[receiver.model], language \in Languages :
        LET obj == receiver.obj
        IN returned' =
            CASE receiver.model = "main_News" /\ pair = "title" ->
                     Returned("main.NewsSerializer.get_title", pair, language,
                              main_NewsSerializer_get_title(obj, language))
              [] receiver.model = "main_News" /\ pair = "content" ->
                     Returned("main.NewsSerializer.get_content", pair, language,
                              main_NewsSerializer_get_content(obj, language))
              [] receiver.model = "main_Experience" ->
                     Returned("ExperienceSerializer.get_experience", pair, language,
                              ExperienceSerializer_get_experience(obj, language))
              [] receiver.model = "main_GalleryItem" ->
                     Returned("GalleryItemSerializer.get_description", pair, language,
                              GalleryItemSerializer_get_description(obj, language))
              [] receiver.model = "main_Feedback" ->
                     Returned("FeedbackSerializer.get_fullname", pair, language,
                              FeedbackSerializer_get_fullname(obj, language))
              [] receiver.model = "management_Student" /\ pair = "name" ->
                     Returned("Student.get_name", pair, language,
                              Student_get_name(obj, language))
              [] OTHER -> returned
    /\ \/ receiver.model \in {"main_News", "main_Experience", "main_GalleryItem",
                              "main_Feedback"}
       \/ receiver.model = "management_Student"
    /\ UNCHANGED <<University, auth_user, UniversityManager, board, InformationDocuments, scan,
                   Student, Class, ClassTimeTable, Employee, OrganManager, saving, Enterance,
                   EnteranceStudentRegistration, ClassStudentRegistration,
                   StudentRegistration, EnterancePayment, ClassPayment, receiver,
                   sequences, request, response>>

ReadNext == to_representation \/ get_with_language

ReadSpec == ReadInit /\ [][ReadNext]_vars

-----------------------------------------------------------------------------
(* C13 *)

\* a side of a pair holds a text
NonEmpty(v) == v # <<>> /\ v # None

\* C13: what a read serializer returns for a pair is the Korean side when
\* that is non-empty, otherwise the Uzbek side when that is non-empty,
\* otherwise an empty value.
C13_ReadResolvesKoThenUz ==
    (returned.method # "none" /\ returned.language = "")
        => LET k == receiver.obj[ko(returned.pair)]
               u == receiver.obj[uz(returned.pair)]
           IN IF NonEmpty(k) THEN returned.result = k
              ELSE IF NonEmpty(u) THEN returned.result = u
              ELSE ~NonEmpty(returned.result)

\* a student without a Korean name was rendered under the Uzbek one
C13_Witness ==
    /\ returned.method = "StudentSerializer.get_name"
    /\ receiver.obj.name_ko = <<>>
    /\ receiver.obj.name_uz = Uz(2)
    /\ returned.result = Uz(2)

-----------------------------------------------------------------------------
(* C14 *)

\* C14: an accessor that takes a preferred language (ko or uz) returns the
\* side of that language when it is non-empty, otherwise the other side when
\* that is non-empty, otherwise an empty value.
C14_PreferredLanguageFallsBack ==
    (returned.method # "none" /\ returned.language \in {"ko", "uz"})
        => LET k == receiver.obj[ko(returned.pair)]
               u == receiver.obj[uz(returned.pair)]
               preferred == IF returned.language = "ko" THEN k ELSE u
               other == IF returned.language = "ko" THEN u ELSE k
           IN IF NonEmpty(preferred) THEN returned.result = preferred
              ELSE IF NonEmpty(other) THEN returned.result = other
              ELSE ~NonEmpty(returned.result)

-----------------------------------------------------------------------------
(* First saves of Employee, UniversityManager and OrganManager rows          *)
(* (management/models.py) and employee login (management/views.py).          *)
(* save() opens no transaction: called on its own (Model.save() and          *)
(* objects.create() are the models' public API) its statements are committed *)
(* one after the other, and `saving' is the call under way and where it      *)
(* stands.  The admin site runs the same save() inside the transaction of    *)
(* its add view, so there the statements take effect together or not at all. *)

\* first saves in one behaviour of ProvisionSpec
MaxSaves == 3

HTTP_401_UNAUTHORIZED == 401
HTTP_500_INTERNAL_SERVER_ERROR == 500

\* the table a model's rows are stored in
Rows(model) ==
    CASE model = "Employee" -> Employee
      [] model = "UniversityManager" -> UniversityManager
      [] model = "OrganManager" -> OrganManager

\* the group each save puts its user in
GroupOf(model) ==
    CASE model = "Employee" -> "upsight_staff"
      [] model = "UniversityManager" -> "university_staff"
      [] model = "OrganManager" -> "organ_staff"

\* the save under way: the model, the primary key of the inserted row, the
\* statement to run next, the user created so far, and the arguments
Saving(model, id, pc, user, username, raw) ==
    [model |-> model, id |-> id, pc |-> pc, user |-> user, username |-> username,
     raw |-> raw]

\* no save is between two of its statements
Settled == saving.pc \in {"done", "insert_failed", "user_failed", "rolled_back"}

\* first saves started so far
Saves == (sequences["Employee"] - 1) + (sequences["UniversityManager"] - 1)
             + (sequences["OrganManager"] - 1)

\* the password column as save() writes it when is_new
hashed(password) ==
    IF password # <<>> /\ ~startswith_pbkdf2(password)
    THEN make_password(password) ELSE password

\* Employee.save, is_new: the password is hashed and the row inserted with a
\* null user; a taken employee_id makes the INSERT fail
Employee_save(employee_id, password) ==
    /\ IF \E e \in Employee : e.employee_id = employee_id
       THEN /\ saving' = Saving("Employee", 0, "insert_failed", NoUser, employee_id,
                                password)
            /\ UNCHANGED <<Employee, sequences>>
       ELSE /\ Employee' = Employee \cup
                   {[id |-> sequences["Employee"], user |-> NoUser,
                     employee_id |-> employee_id, password |-> hashed(password)]}
            /\ sequences' = [sequences EXCEPT !["Employee"] = @ + 1]
            /\ saving' = Saving("Employee", sequences["Employee"], "create_user", NoUser,
                                employee_id, password)
    /\ UNCHANGED <<University, auth_user, UniversityManager, board, InformationDocuments, scan,
                   Student, Class, ClassTimeTable, Enterance, OrganManager,
                   EnteranceStudentRegistration, ClassStudentRegistration,
                   StudentRegistration, EnterancePayment, ClassPayment, receiver,
                   returned, request, response>>

\* UniversityManager.save, is_new
UniversityManager_save(university, manager_id, password) ==
    /\ IF \E m \in UniversityManager : m.manager_id = manager_id
       THEN /\ saving' = Saving("UniversityManager", 0, "insert_failed", NoUser,
                                str(manager_id), password)
            /\ UNCHANGED <<UniversityManager, sequences>>
       ELSE /\ UniversityManager' = UniversityManager \cup
                   {[id |-> sequences["UniversityManager"], user |-> NoUser,
                     university |-> university, manager_id |-> manager_id,
                     password |-> hashed(password)]}
            /\ sequences' = [sequences EXCEPT !["UniversityManager"] = @ + 1]
            /\ saving' = Saving("UniversityManager", sequences["UniversityManager"],
                                "create_user", NoUser, str(manager_id), password)
    /\ UNCHANGED <<University, auth_user, Employee, board, InformationDocuments, scan,
                   Student, Class, ClassTimeTable, Enterance, OrganManager,
                   EnteranceStudentRegistration, ClassStudentRegistration,
                   StudentRegistration, EnterancePayment, ClassPayment, receiver,
                   returned, request, response>>

\* OrganManager.save, is_new
OrganManager_save(organ, manager_id, password) ==
    /\ IF \E m \in OrganManager : m.manager_id = manager_id
       THEN /\ saving' = Saving("OrganManager", 0, "insert_failed", NoUser,
                                str(manager_id), password)
            /\ UNCHANGED <<OrganManager, sequences>>
       ELSE /\ OrganManager' = OrganManager \cup
                   {[id |-> sequences["OrganManager"], user |-> NoUser,
                     organ |-> organ, manager_id |-> manager_id,
                     password |-> hashed(password)]}
            /\ sequences' = [sequences EXCEPT !["OrganManager"] = @ + 1]
            /\ saving' = Saving("OrganManager", sequences["OrganManager"],
                                "create_user", NoUser, str(manager_id), password)
    /\ UNCHANGED <<University, auth_user, Employee, UniversityManager, board,
                   InformationDocuments, scan, Student, Class, ClassTimeTable, Enterance,
                   EnteranceStudentRegistration, ClassStudentRegistration,
                   StudentRegistration, EnterancePayment, ClassPayment, receiver,
                   returned, request, response>>

\* the row a save inserted
saved_row == CHOOSE r \in Rows(saving.model) : r.id = saving.id

\* User.objects.create(username=..., password=self.password, ...): username is
\* unique, and a taken one raises IntegrityError out of save()
User_objects_create ==
    /\ saving.pc = "create_user"
    /\ IF \E u \in DOMAIN auth_user : auth_user[u].username = saving.username
       THEN /\ saving' = [saving EXCEPT !.pc = "user_failed"]
            /\ UNCHANGED auth_user
       ELSE /\ auth_user' = Append(auth_user,
                                   AuthUser(saving.username, saved_row.password, {}))
            /\ saving' = [saving EXCEPT !.pc = "groups_add",
                                        !.user = Len(auth_user) + 1]
    /\ UNCHANGED <<University, UniversityManager, Employee, OrganManager, board,
                   InformationDocuments, scan, Student, Class, ClassTimeTable, Enterance,
                   EnteranceStudentRegistration, ClassStudentRegistration,
                   StudentRegistration, EnterancePayment, ClassPayment, receiver,
                   returned, sequences, request, response>>

\* Group.objects.get_or_create(name=...); user.groups.add(group)
user_groups_add ==
    /\ saving.pc = "groups_add"
    /\ auth_user' = [auth_user EXCEPT ![saving.user].groups = @ \cup {GroupOf(saving.model)}]
    /\ saving' = [saving EXCEPT !.pc = "link_user"]
    /\ UNCHANGED <<University, UniversityManager, Employee, OrganManager, board,
                   InformationDocuments, scan, Student, Class, ClassTimeTable, Enterance,
                   EnteranceStudentRegistration, ClassStudentRegistration,
                   StudentRegistration, EnterancePayment, ClassPayment, receiver,
                   returned, sequences, request, response>>

\* a table with the user column of one row set
with_user(rows, id, user) ==
    {IF r.id = id THEN [r EXCEPT !.user = user] ELSE r : r \in rows}

\* self.user = user; super().save(update_fields=["user"])
save_user ==
    /\ saving.pc = "link_user"
    /\ Employee' = IF saving.model = "Employee"
                   THEN with_user(Employee, saving.id, saving.user) ELSE Employee
    /\ UniversityManager' = IF saving.model = "UniversityManager"
                            THEN with_user(UniversityManager, saving.id, saving.user)
                            ELSE UniversityManager
    /\ OrganManager' = IF saving.model = "OrganManager"
                       THEN with_user(OrganManager, saving.id, saving.user)
                       ELSE OrganManager
    /\ saving' = [saving EXCEPT !.pc = "done"]
    /\ UNCHANGED <<University, auth_user, board, InformationDocuments, scan, Student, Class,
                   ClassTimeTable, Enterance, EnteranceStudentRegistration,
                   ClassStudentRegistration, StudentRegistration, EnterancePayment,
                   ClassPayment, receiver, returned, sequences, request, response>>

\* the username a row was provisioned under
username_of(model, row) ==
    IF model = "Employee" THEN row.employee_id ELSE str(row.manager_id)

\* a table with the password column of one row set
with_password(rows, id, password) ==
    {IF r.id = id THEN [r EXCEPT !.password = password] ELSE r : r \in rows}

\* save() of a row that has its primary key: is_new is false, the password is
\* written as it stands and neither the hashing nor the User is touched
save_update(model, id, password) ==
    /\ \E r \in Rows(model) :
           /\ r.id = id
           /\ saving' = Saving(model, id, "done", r.user, username_of(model, r), password)
    /\ Employee' = IF model = "Employee"
                   THEN with_password(Employee, id, password) ELSE Employee
    /\ UniversityManager' = IF model = "UniversityManager"
                            THEN with_password(UniversityManager, id, password)
                            ELSE UniversityManager
    /\ OrganManager' = IF model = "OrganManager"
                       THEN with_password(OrganManager, id, password)
                       ELSE OrganManager
    /\ UNCHANGED <<University, auth_user, board, InformationDocuments, scan, Student, Class,
                   ClassTimeTable, Enterance, EnteranceStudentRegistration,
                   ClassStudentRegistration, StudentRegistration, EnterancePayment,
                   ClassPayment, receiver, returned, sequences, request, response>>

\* the row save() inserts for a model, with the user it ends up linked to
new_row(model, pk, parent, id, password, user) ==
    CASE model = "Employee" ->
             [id |-> pk, user |-> user, employee_id |-> id, password |-> hashed(password)]
      [] model = "UniversityManager" ->
             [id |-> pk, user |-> user, university |-> parent, manager_id |-> id,
              password |-> hashed(password)]
      [] model = "OrganManager" ->
             [id |-> pk, user |-> user, organ |-> parent, manager_id |-> id,
              password |-> hashed(password)]

\* the add view of the admin site (EmployeeAdmin, UniversityManagerInline,
\* OrganManagerInline): save() runs inside the view's transaction, so the
\* row, its User, the group and the link are committed together, and an
\* IntegrityError of the INSERT or of User.objects.create leaves nothing
ModelAdmin_add(model, parent, id, password) ==
    LET username == IF model = "Employee" THEN id ELSE str(id)
        pk == sequences[model]
        user == Len(auth_user) + 1
    IN  /\ IF \E r \in Rows(model) : username_of(model, r) = username
           THEN /\ saving' = Saving(model, 0, "insert_failed", NoUser, username, password)
                /\ UNCHANGED <<Employee, UniversityManager, OrganManager, auth_user,
                               sequences>>
           ELSE IF \E u \in DOMAIN auth_user : auth_user[u].username = username
           THEN /\ saving' = Saving(model, 0, "rolled_back", NoUser, username, password)
                /\ UNCHANGED <<Employee, UniversityManager, OrganManager, auth_user,
                               sequences>>
           ELSE /\ Employee' =
                       IF model = "Employee"
                       THEN Employee \cup {new_row(model, pk, parent, id, password, user)}
                       ELSE Employee
                /\ UniversityManager' =
                       IF model = "UniversityManager"
                       THEN UniversityManager
                                \cup {new_row(model, pk, parent, id, password, user)}
                       ELSE UniversityManager
                /\ OrganManager' =
                       IF model = "OrganManager"
                       THEN OrganManager
                                \cup {new_row(model, pk, parent, id, password, user)}
                       ELSE OrganManager
                /\ auth_user' = Append(auth_user,
                                       AuthUser(username, hashed(password),
                                                {GroupOf(model)}))
                /\ sequences' = [sequences EXCEPT ![model] = @ + 1]
                /\ saving' = Saving(model, pk, "done", user, username, password)
        /\ UNCHANGED <<University, board, InformationDocuments, scan, Student, Class,
                       ClassTimeTable, Enterance, EnteranceStudentRegistration,
                       ClassStudentRegistration, StudentRegistration, EnterancePayment,
                       ClassPayment, receiver, returned, request, response>>

\* EmployeeLoginSerializer.validate: the employee the credentials name, if any
EmployeeLoginSerializer_validate(employee_id, password) ==
    {e \in Employee : /\ employee_id # <<>> /\ password # <<>>
                      /\ e.employee_id = employee_id
                      /\ check_password(password, e.password)}

\* serializers.CharField() of EmployeeLoginSerializer: the value is stripped
\* of leading and trailing whitespace (trim_whitespace) before validate() is
\* called; a value that is blank after that fails the field, which the view
\* answers like a failed validate()
CharField_to_internal_value(data) == strip(data)

\* management.views.employee_login: tokens for employee.user, or 401;
\* RefreshToken.for_user(None) raises when the employee has no user
employee_login(employee_id, password) ==
    /\ serve(Request("employee_login", "employee", "POST", NoUser, 0,
                     [employee_id |-> employee_id, password |-> password]))
    /\ response' =
        LET validated == EmployeeLoginSerializer_validate(
                             CharField_to_internal_value(employee_id),
                             CharField_to_internal_value(password))
        IN  IF validated = {}
            THEN Response(HTTP_401_UNAUTHORIZED, {}, {"Invalid credentials"})
            ELSE IF \E e \in validated : e.user = NoUser
            THEN Response(HTTP_500_INTERNAL_SERVER_ERROR, {}, {})
            ELSE Response(HTTP_200_OK,
                          {[id |-> e.id, employee_id |-> e.employee_id,
                            tokens |-> e.user] : e \in validated},
                          {})
    /\ UNCHANGED <<tables, sequences>>

\* management.views.unified_login, the view management/urls.py routes
\* auth/login to.  Its code is not among the sources (the path of
\* employee_login is commented out there), so it follows the specification:
\* the id and password of an employee are exchanged for tokens of its
\* principal, with the credential check employee_login makes
unified_login(employee_id, password) == employee_login(employee_id, password)

ProvisionInit ==
    /\ University = {1}
    /\ auth_user = <<>>
    /\ UniversityManager = {}
    /\ Employee = {}
    /\ board = [k \in Kinds |-> {}]
    /\ InformationDocuments = {}
    /\ Student = <<>>
    /\ Class = {}
    /\ ClassTimeTable = {}
    /\ NoOtherManagement
    /\ sequences = [t \in Tables \cup {"Employee", "UniversityManager", "OrganManager"}
                       |-> 1]
    /\ scan = PrimaryKeyScan
    /\ request = Idle
    /\ response = NoResponse

\* what the admin types: ids that are digits or not, passwords that look
\* encoded or not
EmployeeIds == {str(1), <<"e">>}
ManagerIds == {1, 2}
Passwords == {<<"a">>, <<"pbkdf2_", "b">>}

\* save() called on its own, outside any transaction
employee_save ==
    /\ request = Idle /\ Settled /\ Saves < MaxSaves
    /\ \E id \in EmployeeIds, p \in Passwords : Employee_save(id, p)

university_manager_save ==
    /\ request = Idle /\ Settled /\ Saves < MaxSaves
    /\ \E id \in ManagerIds, p \in Passwords : UniversityManager_save(1, id, p)

organ_manager_save ==
    /\ request = Idle /\ Settled /\ Saves < MaxSaves
    /\ \E id \in ManagerIds, p \in Passwords : OrganManager_save(1, id, p)

\* the admin site adds an Employee, or a manager through the inline of its
\* university or organ
admin_add ==
    /\ request = Idle /\ Settled /\ Saves < MaxSaves
    /\ \/ \E id \in EmployeeIds, p \in Passwords : ModelAdmin_add("Employee", 0, id, p)
       \/ \E model \in {"UniversityManager", "OrganManager"}, id \in ManagerIds,
               p \in Passwords : ModelAdmin_add(model, 1, id, p)

\* a password typed into the change form of an existing row
NewPasswords == Passwords \cup {<<"c">>}

\* the change form saves a row that has its primary key with a password typed in
entity_update ==
    /\ request = Idle /\ Settled
    /\ \E model \in {"Employee", "UniversityManager", "OrganManager"} :
           \E r \in Rows(model), p \in NewPasswords : save_update(model, r.id, p)

login ==
    /\ request = Idle
    /\ \E id \in EmployeeIds \cup {<<"x">>, <<" ", "e">>},
          p \in NewPasswords \cup {<<"z">>, <<"a", " ">>} :
           unified_login(id, p)

ProvisionNext ==
    \/ employee_save \/ university_manager_save \/ organ_manager_save
    \/ (request = Idle /\ User_objects_create)
    \/ (request = Idle /\ user_groups_add)
    \/ (request = Idle /\ save_user)
    \/ admin_add
    \/ entity_update
    \/ login
    \/ next_request

ProvisionSpec == ProvisionInit /\ [][ProvisionNext]_vars


\* every persisted Employee, UniversityManager and OrganManager row
Entities ==
    {[model |-> "Employee", id |-> e.id, user |-> e.user] : e \in Employee}
    \cup {[model |-> "UniversityManager", id |-> m.id, user |-> m.user] :
             m \in UniversityManager}
    \cup {[model |-> "OrganManager", id |-> m.id, user |-> m.user] : m \in OrganManager}

\* C16: in every reachable state, the states between the steps of a first
\* save included, every persisted Employee, UniversityManager and
\* OrganManager row is linked to exactly one existing User, and no User is
\* linked to more than one such row.
C16_EveryRowHasOnePrincipal ==
    /\ \A x \in Entities : x.user # NoUser /\ x.user \in DOMAIN auth_user
    /\ \A x, y \in Entities : x.user = y.user /\ x.user # NoUser => x = y

\* C17: when User creation fails during a first save (the username derived
\* from employee_id/manager_id is taken), the entity row that save inserted
\* is not left persisted.
C17_FailedPrincipalLeavesNoRow ==
    saving.pc \in {"user_failed", "rolled_back"} =>
        ~ \E r \in Rows(saving.model) : username_of(saving.model, r) = saving.username

\* the users provisioned under a username
Principals(username) == {u \in DOMAIN auth_user : auth_user[u].username = username}

\* the employee_login request being answered
LoginAnswered == request.op = "employee_login" /\ response # NoResponse

\* C18: a finished first save has provisioned exactly one User whose username
\* is the employee_id (manager_id) and which is in the model's group; a login
\* with the employee_id and the password given at creation is answered 200
\* with tokens; a login with an unknown id or a wrong password (whitespace
\* around either left aside) is answered without tokens.
C18_CreatedEmployeeCanLogIn ==
    /\ saving.model # "none" /\ saving.pc = "done" =>
           /\ Principals(saving.username) = {saving.user}
           /\ GroupOf(saving.model) \in auth_user[saving.user].groups
    /\ LoginAnswered =>
           \A e \in Employee :
               e.employee_id = request.data.employee_id
               /\ e.password = hashed(request.data.password) =>
                   response.status = HTTP_200_OK /\ response.body # {}
    /\ LoginAnswered =>
           ((~ \E e \in Employee :
                   e.employee_id = strip(request.data.employee_id)
                   /\ e.password = hashed(strip(request.data.password))) =>
               response.status = HTTP_401_UNAUTHORIZED /\ response.body = {})


-----------------------------------------------------------------------------
(* Registration inserts (management/models.py): the three registration       *)
(* tables and the constraints their Meta classes declare.                    *)

\* registration inserts in one behaviour of RegistrationSpec
MaxRegistrations == 3

\* Meta.unique_together of each registration model; StudentRegistration
\* declares none
unique_together(model) ==
    CASE model = "EnteranceStudentRegistration" -> {<<"enterance", "student">>}
      [] model = "ClassStudentRegistration" -> {<<"student", "class_model">>}
      [] model = "StudentRegistration" -> {}

\* the INSERT violates a unique_together of the table
violates_unique(model, rows, row) ==
    \E fields \in unique_together(model) :
        \E r \in rows : \A i \in 1..Len(fields) : r[fields[i]] = row[fields[i]]

\* the primary keys of the Student table
StudentIds == {Student[i].id : i \in DOMAIN Student}

\* the INSERT names a student, enterance or class that is not stored: every
\* ForeignKey is a database constraint
violates_foreign_key(row) ==
    \/ "student" \in DOMAIN row /\ row.student \notin StudentIds
    \/ "enterance" \in DOMAIN row /\ row.enterance \notin ids(Enterance)
    \/ "class_model" \in DOMAIN row /\ row.class_model \notin ids(Class)

\* the outcome of Model.objects.create: the new primary key, or IntegrityError
Inserted(model, id) == [model |-> model, id |-> id, pc |-> "done", user |-> NoUser]
IntegrityError(model) == [model |-> model, id |-> 0, pc |-> "insert_failed", user |-> NoUser]

\* registration inserts so far
Registrations == (sequences["EnteranceStudentRegistration"] - 1)
                     + (sequences["ClassStudentRegistration"] - 1)
                     + (sequences["StudentRegistration"] - 1)

registration_unchanged ==
    UNCHANGED <<University, auth_user, UniversityManager, board, InformationDocuments, scan,
                Student, Class, ClassTimeTable, Employee, OrganManager, Enterance,
                EnterancePayment, ClassPayment, receiver, returned, request, response>>

\* EnteranceStudentRegistration.objects.create(enterance=, student=, state=)
EnteranceStudentRegistration_create(enterance, student, state) ==
    LET model == "EnteranceStudentRegistration"
        row == [id |-> sequences[model], enterance |-> enterance, student |-> student,
                state |-> state]
    IN  /\ IF violates_unique(model, EnteranceStudentRegistration, row) \/ violates_foreign_key(row)
           THEN /\ saving' = IntegrityError(model)
                /\ UNCHANGED <<EnteranceStudentRegistration, sequences>>
           ELSE /\ EnteranceStudentRegistration' = EnteranceStudentRegistration \cup {row}
                /\ sequences' = [sequences EXCEPT ![model] = @ + 1]
                /\ saving' = Inserted(model, row.id)
        /\ UNCHANGED <<ClassStudentRegistration, StudentRegistration>>
        /\ registration_unchanged

\* ClassStudentRegistration.objects.create(student=, class_model=, state=)
ClassStudentRegistration_create(student, class_model, state) ==
    LET model == "ClassStudentRegistration"
        row == [id |-> sequences[model], student |-> student,
                class_model |-> class_model, state |-> state]
    IN  /\ IF violates_unique(model, ClassStudentRegistration, row) \/ violates_foreign_key(row)
           THEN /\ saving' = IntegrityError(model)
                /\ UNCHANGED <<ClassStudentRegistration, sequences>>
           ELSE /\ ClassStudentRegistration' = ClassStudentRegistration \cup {row}
                /\ sequences' = [sequences EXCEPT ![model] = @ + 1]
                /\ saving' = Inserted(model, row.id)
        /\ UNCHANGED <<EnteranceStudentRegistration, StudentRegistration>>
        /\ registration_unchanged

\* StudentRegistration.objects.create(student=, class_model=, state=)
StudentRegistration_create(student, class_model, state) ==
    LET model == "StudentRegistration"
        row == [id |-> sequences[model], student |-> student,
                class_model |-> class_model, state |-> state]
    IN  /\ IF violates_unique(model, StudentRegistration, row) \/ violates_foreign_key(row)
           THEN /\ saving' = IntegrityError(model)
                /\ UNCHANGED <<StudentRegistration, sequences>>
           ELSE /\ StudentRegistration' = StudentRegistration \cup {row}
                /\ sequences' = [sequences EXCEPT ![model] = @ + 1]
                /\ saving' = Inserted(model, row.id)
        /\ UNCHANGED <<EnteranceStudentRegistration, ClassStudentRegistration>>
        /\ registration_unchanged

RegistrationInit ==
    /\ University = {1}
    /\ auth_user = <<AuthUser(<<"e", "1">>, make_password(<<"a">>), {"upsight_staff"})>>
    /\ UniversityManager = {}
    /\ board = [k \in Kinds |-> {}]
    /\ InformationDocuments = {}
    /\ Student = <<[id |-> 1, name_ko |-> Ko(3), name_uz |-> Uz(3)],
                   [id |-> 2, name_ko |-> Ko(4), name_uz |-> Uz(4)]>>
    /\ Class = {ClassRow(1, 1, 1), ClassRow(2, 1, 1)}
    /\ ClassTimeTable = {}
    /\ Employee =
           {[id |-> 1, user |-> 1, employee_id |-> <<"e", "1">>,
             password |-> make_password(<<"a">>)]}
    /\ OrganManager = {}
    /\ saving = NoSave
    /\ Enterance = {EnteranceRow(1, 1, 1, 2, "now"), EnteranceRow(2, 1, 1, 2, "after")}
    /\ EnteranceStudentRegistration = {}
    /\ ClassStudentRegistration = {}
    /\ StudentRegistration = {}
    /\ EnterancePayment = {}
    /\ ClassPayment = {}
    /\ receiver = NoInstance
    /\ returned = NoValue
    /\ sequences = [t \in Tables \cup {"EnteranceStudentRegistration",
                                      "ClassStudentRegistration",
                                      "StudentRegistration"} |-> 1]
    /\ scan = PrimaryKeyScan
    /\ request = Idle
    /\ response = NoResponse

\* the states a registration is inserted with
RegistrationStates == {1, 2}

\* the student keys a registration is made with: the stored ones and one
\* that is not stored
RegisteringStudents == StudentIds \cup {Len(Student) + 1}

register_enterance ==
    /\ Registrations < MaxRegistrations
    /\ \E e \in Enterance, s \in RegisteringStudents, state \in RegistrationStates :
           EnteranceStudentRegistration_create(e.id, s, state)

register_class ==
    /\ Registrations < MaxRegistrations
    /\ \E s \in RegisteringStudents, c \in ids(Class), state \in RegistrationStates :
           ClassStudentRegistration_create(s, c, state)

register ==
    /\ Registrations < MaxRegistrations
    /\ \E s \in RegisteringStudents, c \in ids(Class), state \in RegistrationStates :
           StudentRegistration_create(s, c, state)

RegistrationNext == register_enterance \/ register_class \/ register

RegistrationSpec == RegistrationInit /\ [][RegistrationNext]_vars

\* C19: after any sequence of registration inserts no Student holds two
\* registrations for the same Enterance, and none holds two for the same
\* Class, in any of the three registration tables.
C19_OneRegistrationPerPair ==
    /\ \A r, q \in EnteranceStudentRegistration :
           r.student = q.student /\ r.enterance = q.enterance => r = q
    /\ \A r, q \in ClassStudentRegistration :
           r.student = q.student /\ r.class_model = q.class_model => r = q
    /\ \A r, q \in StudentRegistration :
           r.student = q.student /\ r.class_model = q.class_model => r = q


-----------------------------------------------------------------------------
(* Payments and the combined payment list (management/views.py).             *)
(* A date is a day number, a stored amount (a Decimal with two decimal       *)
(* places) a number of cents, a total of the response a float.               *)

\* payment inserts in one behaviour of FinanceSpec
MaxPayments == 3

\* the place of a primary key in the database's scan of a table: the keys
\* scan[model] names come first, in its order, the others follow by key
position(model, id) ==
    LET order == scan[model]
    IN  IF \E i \in DOMAIN order : order[i] = id
        THEN CHOOSE i \in DOMAIN order : order[i] = id
        ELSE Len(order) + id

\* Model.objects.all() of a table without Meta.ordering: the query has no
\* ORDER BY, so the rows come in the order of the database's scan
RECURSIVE all(_, _)
all(model, rows) ==
    IF rows = {} THEN <<>>
    ELSE LET first == CHOOSE r \in rows :
                          \A q \in rows : position(model, r.id) <= position(model, q.id)
         IN  <<first>> \o all(model, rows \ {first})

\* getattr(payment, name) raises AttributeError
AttributeError(payment, name) == name \notin DOMAIN payment

\* the dict finance_payments_list builds for an EnterancePayment
entrance_payment_data(payment) ==
    [id |-> <<"entrance_", payment.id>>, original_id |-> payment.id,
     date |-> payment.date, amount |-> payment.amount, payment_type |-> "entrance",
     student |-> payment.student, payment_month |-> None]

\* the dict finance_payments_list builds for a ClassPayment; it reads
\* payment.payment_month
class_payment_data(payment) ==
    [id |-> <<"class_", payment.id>>, original_id |-> payment.id,
     date |-> payment.date, amount |-> payment.amount, payment_type |-> "class",
     student |-> payment.student, payment_month |-> payment.payment_month]

\* payments_data.sort(key=lambda x: x['date'], reverse=True): a stable sort,
\* equal dates keep the order they had in the list
RECURSIVE sort_by_date_reverse(_)
sort_by_date_reverse(data) ==
    IF data = <<>> THEN <<>>
    ELSE LET front == sort_by_date_reverse(SubSeq(data, 1, Len(data) - 1))
             x == data[Len(data)]
             k == Cardinality({i \in 1..Len(front) : front[i].date >= x.date})
         IN  SubSeq(front, 1, k) \o <<x>> \o SubSeq(front, k + 1, Len(front))

\* A float is an IEEE 754 binary64: mant holds the 53 binary digits of the
\* significand, the leading one first, and exp the exponent of that leading
\* digit; the value is mant * 2^(exp - 52).  The digits are kept as a
\* sequence because they do not fit a 32-bit integer.
Precision == 53

\* 0.0, and the int 0 that sum() returns for no payment at all
Zero == [exp |-> 0, mant |-> <<>>]

\* the binary digits of a natural number, the leading one first
RECURSIVE bits(_)
bits(n) == IF n = 0 THEN <<>> ELSE bits(n \div 2) \o <<n % 2>>

\* k zeros, none when k is negative
zeros(k) == [i \in 1..(IF k > 0 THEN k ELSE 0) |-> 0]

\* the first k binary digits of the fraction r / 100
RECURSIVE fraction_bits(_, _)
fraction_bits(r, k) ==
    IF k <= 0 THEN <<>> ELSE <<(2 * r) \div 100>> \o fraction_bits((2 * r) % 100, k - 1)

\* what is left of r / 100 after its first k binary digits, in units of 2^-k / 100
RECURSIVE fraction_rest(_, _)
fraction_rest(r, k) == IF k <= 0 THEN r ELSE fraction_rest((2 * r) % 100, k - 1)

\* the carry that binary addition of two digit sequences of one length
\* brings into digit i - 1, `carry' being the carry into the last digit
RECURSIVE carry_out(_, _, _, _)
carry_out(a, b, i, carry) ==
    IF i > Len(a) THEN carry
    ELSE (a[i] + b[i] + carry_out(a, b, i + 1, carry)) \div 2

\* binary addition of two digit sequences of one length, with the carry
\* coming out in front
add_bits(a, b, carry) ==
    LET digits == [i \in 1..Len(a) |-> (a[i] + b[i] + carry_out(a, b, i + 1, carry)) % 2]
    IN  IF carry_out(a, b, 1, carry) = 1 THEN <<1>> \o digits ELSE digits

\* round to nearest, ties to even: digits are the exact binary digits of a
\* value from its leading one, exp is the exponent of that digit, and sticky
\* says that the value has further nonzero digits after them
round(digits, exp, sticky) ==
    LET exact == digits \o zeros(Precision + 1 - Len(digits))
        mant == SubSeq(exact, 1, Precision)
        half == exact[Precision + 1] = 1
        more == sticky \/ \E i \in (Precision + 2)..Len(exact) : exact[i] = 1
        up == half /\ (more \/ mant[Precision] = 1)
        raised == add_bits(mant, zeros(Precision), 1)
    IN  IF ~up THEN [exp |-> exp, mant |-> mant]
        ELSE IF Len(raised) > Precision
        THEN [exp |-> exp + 1, mant |-> SubSeq(raised, 1, Precision)]
        ELSE [exp |-> exp, mant |-> raised]

\* float(Decimal): the binary64 nearest to an amount of `cents' hundredths
float(cents) ==
    LET whole == bits(cents \div 100)
        rest == cents % 100
        lead == CHOOSE z \in 0..6 :
                    /\ fraction_bits(rest, z + 1)[z + 1] = 1
                    /\ \A i \in 1..z : fraction_bits(rest, z)[i] = 0
    IN  IF cents = 0 THEN Zero
        ELSE IF whole # <<>>
        THEN round(whole \o fraction_bits(rest, Precision + 1 - Len(whole)),
                   Len(whole) - 1,
                   fraction_rest(rest, Precision + 1 - Len(whole)) # 0)
        ELSE round(SubSeq(fraction_bits(rest, lead + Precision + 1),
                          lead + 1, lead + Precision + 1),
                   0 - (lead + 1),
                   fraction_rest(rest, lead + Precision + 1) # 0)

\* x + y of two floats that are not negative: the exact sum, rounded
fadd(x, y) ==
    IF x = Zero THEN y
    ELSE IF y = Zero THEN x
    ELSE LET hi == IF x.exp >= y.exp THEN x ELSE y
             lo == IF x.exp >= y.exp THEN y ELSE x
             shift == hi.exp - lo.exp
             exact == add_bits(hi.mant \o zeros(shift), zeros(shift) \o lo.mant, 0)
         IN  round(exact, hi.exp + Len(exact) - (Precision + shift), FALSE)

\* sum(float(payment['amount']) for payment in payments_data if ...): the
\* amounts are converted to float and added from the left, each sum rounded
RECURSIVE sum_amount(_)
sum_amount(data) ==
    IF data = <<>> THEN Zero
    ELSE fadd(sum_amount(SubSeq(data, 1, Len(data) - 1)),
              float(data[Len(data)].amount))

of_type(data, payment_type) == SelectSeq(data, LAMBDA p : p.payment_type = payment_type)

\* the payments list before sorting: entrance payments, then class payments
payments_data ==
    [i \in 1..Cardinality(EnterancePayment) |->
        entrance_payment_data(all("EnterancePayment", EnterancePayment)[i])]
    \o [i \in 1..Cardinality(ClassPayment) |->
           class_payment_data(all("ClassPayment", ClassPayment)[i])]

\* management.views.finance_payments_list
finance_payments_list(user) ==
    /\ serve(Request("finance_payments_list", "payment", "GET", user, 0, NoData))
    /\ response' =
        IF ~in_group(user, "upsight_staff")
        THEN Response(HTTP_403_FORBIDDEN, {}, {"Permission denied"})
        ELSE IF \E payment \in ClassPayment : AttributeError(payment, "payment_month")
        THEN Response(HTTP_500_INTERNAL_SERVER_ERROR, {}, {"Failed to fetch payments"})
        ELSE LET data == sort_by_date_reverse(payments_data)
             IN  Response(HTTP_200_OK,
                          [payments |-> data,
                           total_count |-> Len(data),
                           totals |->
                              [total_amount |-> sum_amount(data),
                               entrance_payments_total |->
                                   sum_amount(of_type(data, "entrance")),
                               class_payments_total |-> sum_amount(of_type(data, "class")),
                               entrance_payments_count |-> Len(of_type(data, "entrance")),
                               class_payments_count |-> Len(of_type(data, "class"))]],
                          {})
    /\ UNCHANGED <<tables, sequences>>

\* payment inserts so far
Payments == (sequences["EnterancePayment"] - 1) + (sequences["ClassPayment"] - 1)

payment_unchanged ==
    UNCHANGED <<University, auth_user, UniversityManager, board, InformationDocuments, scan,
                Student, Class, ClassTimeTable, Employee, OrganManager, saving, Enterance,
                EnteranceStudentRegistration, ClassStudentRegistration,
                StudentRegistration, receiver, returned, request, response>>

\* EnterancePayment.objects.create(date=, amount=, student=, enterance=): an
\* INSERT that breaks a foreign key raises IntegrityError and stores nothing
EnterancePayment_create(date, amount, student, enterance) ==
    LET row == [id |-> sequences["EnterancePayment"], date |-> date, amount |-> amount,
                student |-> student, enterance |-> enterance]
    IN  /\ IF violates_foreign_key(row)
           THEN UNCHANGED <<EnterancePayment, sequences>>
           ELSE /\ EnterancePayment' = EnterancePayment \cup {row}
                /\ sequences' = [sequences EXCEPT !["EnterancePayment"] = @ + 1]
        /\ UNCHANGED ClassPayment
        /\ payment_unchanged

\* ClassPayment.objects.create(date=, amount=, student=, class_model=)
ClassPayment_create(date, amount, student, class_model) ==
    LET row == [id |-> sequences["ClassPayment"], date |-> date, amount |-> amount,
                student |-> student, class_model |-> class_model]
    IN  /\ IF violates_foreign_key(row)
           THEN UNCHANGED <<ClassPayment, sequences>>
           ELSE /\ ClassPayment' = ClassPayment \cup {row}
                /\ sequences' = [sequences EXCEPT !["ClassPayment"] = @ + 1]
        /\ UNCHANGED EnterancePayment
        /\ payment_unchanged

FinanceInit ==
    /\ University = {1}
    /\ auth_user = <<AuthUser(<<"e", "1">>, make_password(<<"a">>), {"upsight_staff"}),
                     AuthUser(str(2), make_password(<<"a">>), {"university_staff"})>>
    /\ UniversityManager = {[id |-> 1, user |-> 2, university |-> 1, manager_id |-> 2,
                             password |-> make_password(<<"a">>)]}
    /\ board = [k \in Kinds |-> {}]
    /\ InformationDocuments = {}
    /\ Student = <<[id |-> 1, name_ko |-> Ko(3), name_uz |-> Uz(3)],
                   [id |-> 2, name_ko |-> <<>>, name_uz |-> Uz(4)]>>
    /\ Class = {ClassRow(1, 1, 1)}
    /\ ClassTimeTable = {}
    /\ Employee = {[id |-> 1, user |-> 1, employee_id |-> <<"e", "1">>,
                    password |-> make_password(<<"a">>)]}
    /\ OrganManager = {}
    /\ saving = NoSave
    /\ Enterance = {EnteranceRow(1, 1, 1, 2, "now")}
    /\ EnteranceStudentRegistration = {}
    /\ ClassStudentRegistration = {}
    /\ StudentRegistration = {}
    /\ EnterancePayment = {}
    /\ ClassPayment = {}
    /\ receiver = NoInstance
    /\ returned = NoValue
    /\ sequences = [t \in Tables \cup {"EnterancePayment", "ClassPayment"} |-> 1]
    /\ scan \in {[PrimaryKeyScan EXCEPT !["EnterancePayment"] = order,
                                          !["ClassPayment"] = order] :
                    order \in Orders(1..MaxPayments)}
    /\ request = Idle
    /\ response = NoResponse

\* payment days and amounts (in cents: 0.10 and 0.20)
Dates == {1, 2}
Amounts == {10, 20}

\* the student keys a payment is made with: the stored ones and one that
\* is not stored
PayingStudents == StudentIds \cup {Len(Student) + 1}

pay_enterance ==
    /\ request = Idle /\ Payments < MaxPayments
    /\ \E d \in Dates, a \in Amounts, s \in PayingStudents, e \in Enterance :
           EnterancePayment_create(d, a, s, e.id)

pay_class ==
    /\ request = Idle /\ Payments < MaxPayments
    /\ \E d \in Dates, a \in Amounts, s \in PayingStudents, c \in ids(Class) :
           ClassPayment_create(d, a, s, c)

finance_payments ==
    /\ request = Idle
    /\ \E u \in Users : finance_payments_list(u)

FinanceNext == pay_enterance \/ pay_class \/ finance_payments \/ next_request

FinanceSpec == FinanceInit /\ [][FinanceNext]_vars

\* the payments list answered to a finance request of a global-staff user
FinanceAnswered ==
    /\ request.op = "finance_payments_list" /\ response # NoResponse
    /\ in_group(request.user, "upsight_staff")

\* C20: for a global-staff user and any contents of the two payment tables,
\* finance_payments_list answers 200 with exactly one record per
\* EnterancePayment row and one per ClassPayment row, each tagged with its
\* kind, ordered by date non-increasing, equal dates in insertion order
\* (the order of the primary keys).
C20_OneRecordPerPaymentByDate ==
    FinanceAnswered =>
        /\ response.status = HTTP_200_OK
        /\ LET data == response.body.payments
           IN  /\ Len(data) = Cardinality(EnterancePayment) + Cardinality(ClassPayment)
               /\ \A p \in EnterancePayment :
                      Cardinality({i \in 1..Len(data) :
                          data[i].payment_type = "entrance"
                          /\ data[i].original_id = p.id}) = 1
               /\ \A p \in ClassPayment :
                      Cardinality({i \in 1..Len(data) :
                          data[i].payment_type = "class"
                          /\ data[i].original_id = p.id}) = 1
               /\ \A i, j \in 1..Len(data) : i < j => data[i].date >= data[j].date
               /\ \A i, j \in 1..Len(data) :
                      i < j /\ data[i].date = data[j].date
                      /\ data[i].payment_type = data[j].payment_type =>
                          data[i].original_id < data[j].original_id


\* the sum of the amounts of a set of payment rows
RECURSIVE SumOfRows(_)
SumOfRows(rows) ==
    IF rows = {} THEN 0
    ELSE LET r == CHOOSE r \in rows : TRUE IN r.amount + SumOfRows(rows \ {r})

\* C21: the finance response of a global-staff user carries total_amount equal
\* to the sum of all payment amounts, entrance_payments_total and
\* class_payments_total equal to the sums over their own kind, total_amount
\* equal to the two added, and the two counts adding up to total_count.  A
\* total equals a sum when it is the number the sum is written as: the float
\* nearest to it.
C21_TotalsAreTheSums ==
    FinanceAnswered =>
        /\ response.status = HTTP_200_OK
        /\ LET totals == response.body.totals
           IN  /\ totals.entrance_payments_total = float(SumOfRows(EnterancePayment))
               /\ totals.class_payments_total = float(SumOfRows(ClassPayment))
               /\ totals.total_amount
                      = float(SumOfRows(EnterancePayment) + SumOfRows(ClassPayment))
               /\ totals.total_amount
                      = fadd(totals.entrance_payments_total,
                             totals.class_payments_total)
               /\ totals.entrance_payments_count + totals.class_payments_count
                      = response.body.total_count
               /\ totals.entrance_payments_count = Cardinality(EnterancePayment)
               /\ totals.class_payments_count = Cardinality(ClassPayment)


-----------------------------------------------------------------------------
(* Enterance: the admin's writes (management/admin.py) and the two read      *)
(* endpoints (management/views.py).                                          *)

\* inserts (enterances, registrations, payments) in one behaviour of
\* EnteranceSpec
MaxEnteranceInserts == 2

\* Enterance.STATE_OPTIONS: the values the state field's choices allow
Enterance_STATE_OPTIONS == {"end", "now", "after"}

\* the form accepts whatever is typed
Enterance_clean_state_any(state) == state = state

\* the model form's validation of the state field: a value outside the
\* choices is a form error and nothing is saved
Enterance_clean_state(state) == state \in Enterance_STATE_OPTIONS

\* rows inserted so far in EnteranceSpec, the initial Enterance aside
EnteranceInserts ==
    (sequences["Enterance"] - 2) + (sequences["EnteranceStudentRegistration"] - 1)
        + (sequences["EnterancePayment"] - 1)

enterance_unchanged ==
    UNCHANGED <<University, auth_user, UniversityManager, board, InformationDocuments, scan,
                Student, Class, ClassTimeTable, Employee, OrganManager, saving,
                EnteranceStudentRegistration, ClassStudentRegistration,
                StudentRegistration, EnterancePayment, ClassPayment, receiver, returned,
                request, response>>

\* EnteranceAdmin add form: the row is inserted with the state the operator chose
EnteranceAdmin_add(university, from_date, to_date, state) ==
    /\ IF Enterance_clean_state(state)
       THEN /\ Enterance' = Enterance \cup
                   {EnteranceRow(sequences["Enterance"], university, from_date, to_date,
                                 state)}
            /\ sequences' = [sequences EXCEPT !["Enterance"] = @ + 1]
       ELSE UNCHANGED <<Enterance, sequences>>
    /\ enterance_unchanged

\* EnteranceAdmin change form: the fields are written as the operator typed
\* them; nothing is derived from the dates
EnteranceAdmin_change(id, from_date, to_date, state) ==
    /\ \E e \in Enterance : e.id = id
    /\ IF Enterance_clean_state(state)
       THEN Enterance' = {IF e.id = id
                          THEN EnteranceRow(id, e.university, from_date, to_date, state)
                          ELSE e : e \in Enterance}
       ELSE UNCHANGED Enterance
    /\ UNCHANGED sequences
    /\ enterance_unchanged

\* EnteranceSerializer.get_students: the students registered for the
\* enterance, each with the sum of its payments for this enterance
EnteranceSerializer_get_students(obj) ==
    LET registrations == all("EnteranceStudentRegistration",
                             {r \in EnteranceStudentRegistration : r.enterance = obj.id})
    IN  [i \in 1..Len(registrations) |->
            [id |-> registrations[i].student,
             enterance_payment_amount |->
                 SumOfRows({p \in EnterancePayment :
                               p.student = registrations[i].student
                               /\ p.enterance = obj.id}),
             enterance_status |-> registrations[i].state]]

\* EnteranceSerializer
EnteranceSerializer(obj) ==
    [id |-> obj.id, university |-> obj.university, from_date |-> obj.from_date,
     to_date |-> obj.to_date, state |-> obj.state,
     students |-> EnteranceSerializer_get_students(obj)]

\* management.views.enterances_list
enterances_list(user) ==
    /\ serve(Request("enterances_list", "enterance", "GET", user, 0, NoData))
    /\ response' =
        IF ~in_group(user, "upsight_staff")
        THEN Response(HTTP_403_FORBIDDEN, {}, {"Permission denied"})
        ELSE Response(HTTP_200_OK, {EnteranceSerializer(e) : e \in Enterance}, {})
    /\ UNCHANGED <<tables, sequences>>

\* a detail view that closes the enterance it shows
enterance_detail_saving(user, enterance_id) ==
    /\ serve(Request("enterance_detail", "enterance", "GET", user, enterance_id, NoData))
    /\ response' = Response(HTTP_200_OK,
                            {EnteranceSerializer(e) : e \in get(Enterance, enterance_id)}, {})
    /\ Enterance' = {IF e.id = enterance_id THEN [e EXCEPT !.state = "end"] ELSE e :
                        e \in Enterance}
    /\ UNCHANGED <<University, auth_user, UniversityManager, board, InformationDocuments, scan,
                   Student, Class, ClassTimeTable, Employee, OrganManager, saving,
                   EnteranceStudentRegistration, ClassStudentRegistration,
                   StudentRegistration, EnterancePayment, ClassPayment, receiver, returned,
                   sequences>>

\* management.views.enterance_detail
enterance_detail(user, enterance_id) ==
    /\ serve(Request("enterance_detail", "enterance", "GET", user, enterance_id, NoData))
    /\ response' =
        IF ~in_group(user, "upsight_staff")
        THEN Response(HTTP_403_FORBIDDEN, {}, {"Permission denied"})
        ELSE IF get(Enterance, enterance_id) = {}
        THEN Response(HTTP_404_NOT_FOUND, {}, {"Enterance not found"})
        ELSE Response(HTTP_200_OK,
                      {EnteranceSerializer(e) : e \in get(Enterance, enterance_id)}, {})
    /\ UNCHANGED <<tables, sequences>>

EnteranceInit ==
    /\ University = {1}
    /\ auth_user = <<AuthUser(<<"e", "1">>, make_password(<<"a">>), {"upsight_staff"}),
                     AuthUser(str(2), make_password(<<"a">>), {"university_staff"})>>
    /\ UniversityManager = {[id |-> 1, user |-> 2, university |-> 1, manager_id |-> 2,
                             password |-> make_password(<<"a">>)]}
    /\ board = [k \in Kinds |-> {}]
    /\ InformationDocuments = {}
    /\ Student = <<[id |-> 1, name_ko |-> Ko(3), name_uz |-> Uz(3)]>>
    /\ Class = {}
    /\ ClassTimeTable = {}
    /\ Employee = {[id |-> 1, user |-> 1, employee_id |-> <<"e", "1">>,
                    password |-> make_password(<<"a">>)]}
    /\ OrganManager = {}
    /\ saving = NoSave
    /\ Enterance = {EnteranceRow(1, 1, 1, 2, "after")}
    /\ EnteranceStudentRegistration = {}
    /\ ClassStudentRegistration = {}
    /\ StudentRegistration = {}
    /\ EnterancePayment = {}
    /\ ClassPayment = {}
    /\ receiver = NoInstance
    /\ returned = NoValue
    /\ sequences = [t \in Tables \cup {"EnteranceStudentRegistration", "EnterancePayment",
                                      "ClassPayment", "ClassStudentRegistration",
                                      "StudentRegistration"} |-> 1]
                       @@ [t \in {"Enterance"} |-> 2]
    /\ scan = PrimaryKeyScan
    /\ request = Idle
    /\ response = NoResponse

\* what the operator types in the state field, a value outside the choices
\* included
StateInputs == Enterance_STATE_OPTIONS \cup {"next"}

EnteranceIds == {e.id : e \in Enterance} \cup {sequences["Enterance"]}

enterance_add ==
    /\ request = Idle /\ EnteranceInserts < MaxEnteranceInserts
    /\ \E state \in StateInputs : EnteranceAdmin_add(1, 1, 2, state)

enterance_change ==
    /\ request = Idle
    /\ \E e \in Enterance, to_date \in Dates, state \in StateInputs :
           EnteranceAdmin_change(e.id, 1, to_date, state)

enterance_register ==
    /\ request = Idle /\ EnteranceInserts < MaxEnteranceInserts
    /\ \E e \in Enterance, s \in StudentIds :
           EnteranceStudentRegistration_create(e.id, s, 1)

enterance_pay ==
    /\ request = Idle /\ EnteranceInserts < MaxEnteranceInserts
    /\ \E a \in Amounts, s \in StudentIds, e \in Enterance :
           EnterancePayment_create(1, a, s, e.id)

enterances ==
    /\ request = Idle
    /\ \E u \in Users : enterances_list(u)

enterance ==
    /\ request = Idle
    /\ \E u \in Users, id \in EnteranceIds : enterance_detail(u, id)

EnteranceNext ==
    \/ enterance_add \/ enterance_change \/ enterance_register \/ enterance_pay
    \/ enterances \/ enterance \/ next_request

EnteranceSpec == EnteranceInit /\ [][EnteranceNext]_vars


\* the state of the stored Enterance row with that id
StateOf(rows, id) == (CHOOSE e \in rows : e.id = id).state

\* this step is the operator writing that state into that row
OperatorWrites(id, state) ==
    \E from_date \in Dates, to_date \in Dates :
        EnteranceAdmin_change(id, from_date, to_date, state)

\* C22: Enterance.state always holds one of end, now, after; a step changes
\* the state of a stored row only if it is the operator's write of that very
\* state into that row (no read, no other insert and no date changes it);
\* and from every state each of the three states can be written.
C22_StateIsOperatorDriven ==
    /\ [](\A e \in Enterance : e.state \in {"end", "now", "after"})
    /\ [][\A e \in Enterance :
            \A q \in Enterance' :
                q.id = e.id /\ q.state # e.state => OperatorWrites(e.id, q.state)]_vars
    /\ [][\A e \in Enterance : \E q \in Enterance' : q.id = e.id]_vars
    /\ [](\A e \in Enterance :
            \A state \in {"end", "now", "after"} :
                ENABLED (/\ EnteranceAdmin_change(e.id, e.from_date, e.to_date, state)
                         /\ StateOf(Enterance', e.id) = state))

\* the operator has moved the initial row from after to end and changed its
\* to_date, and a detail read shows the row with a registered student
C22_Witness ==
    /\ request.op = "enterance_detail" /\ response.status = HTTP_200_OK
    /\ \E e \in Enterance : e.id = 1 /\ e.state = "end" /\ e.to_date = 1
    /\ \E b \in response.body : b.id = 1 /\ b.state = "end" /\ Len(b.students) = 1


-----------------------------------------------------------------------------
(* Deletes and their cascades: every ForeignKey of board/models.py and       *)
(* management/models.py is on_delete=CASCADE, and Model.delete() collects    *)
(* and removes the dependent rows together with the row itself.              *)

\* inserts in one behaviour of CascadeSpec, all tables together
MaxCascadeInserts == 1

\* the rows of a table that reference none of the removed parents
keep(rows, fk, removed) == {r \in rows : r[fk] \notin removed}

University_delete_rows_only(u) ==
    /\ u \in University
    /\ University' = University \ {u}
    /\ UNCHANGED <<auth_user, UniversityManager, board, InformationDocuments, management,
                   sequences, request, response>>

\* University.delete(): its board items (and the documents of its Information
\* rows), its managers, its Enterances (and their registrations and payments)
\* go with it
University_delete(u) ==
    /\ u \in University
    /\ University' = University \ {u}
    /\ board' = [k \in Kinds |-> keep(board[k], "university", {u})]
    /\ InformationDocuments' =
           keep(InformationDocuments, "information",
                ids(board["information"] \ keep(board["information"], "university", {u})))
    /\ UniversityManager' = keep(UniversityManager, "university", {u})
    /\ Enterance' = keep(Enterance, "university", {u})
    /\ EnteranceStudentRegistration' =
           keep(EnteranceStudentRegistration, "enterance",
                ids(Enterance \ keep(Enterance, "university", {u})))
    /\ EnterancePayment' =
           keep(EnterancePayment, "enterance",
                ids(Enterance \ keep(Enterance, "university", {u})))
    /\ UNCHANGED <<auth_user, Student, Class, ClassTimeTable, Employee, OrganManager,
                   saving, ClassStudentRegistration, StudentRegistration, ClassPayment,
                   receiver, returned, scan, sequences, request, response>>

\* Student.delete(): its registrations and payments go with it
Student_delete(s) ==
    /\ \E i \in DOMAIN Student : Student[i].id = s
    /\ Student' = SelectSeq(Student, LAMBDA r : r.id # s)
    /\ EnteranceStudentRegistration' = keep(EnteranceStudentRegistration, "student", {s})
    /\ ClassStudentRegistration' = keep(ClassStudentRegistration, "student", {s})
    /\ StudentRegistration' = keep(StudentRegistration, "student", {s})
    /\ EnterancePayment' = keep(EnterancePayment, "student", {s})
    /\ ClassPayment' = keep(ClassPayment, "student", {s})
    /\ UNCHANGED <<University, auth_user, UniversityManager, board, InformationDocuments, scan,
                   Class, ClassTimeTable, Employee, OrganManager, saving, Enterance,
                   receiver, returned, sequences, request, response>>

\* Enterance.delete(): its registrations and payments go with it
Enterance_delete(e) ==
    /\ e \in ids(Enterance)
    /\ Enterance' = {r \in Enterance : r.id # e}
    /\ EnteranceStudentRegistration' = keep(EnteranceStudentRegistration, "enterance", {e})
    /\ EnterancePayment' = keep(EnterancePayment, "enterance", {e})
    /\ UNCHANGED <<University, auth_user, UniversityManager, board, InformationDocuments, scan,
                   Student, Class, ClassTimeTable, Employee, OrganManager, saving,
                   ClassStudentRegistration, StudentRegistration, ClassPayment,
                   receiver, returned, sequences, request, response>>

\* Class.delete(): its timetables, registrations and payments go with it
Class_delete(c) ==
    /\ c \in ids(Class)
    /\ Class' = {r \in Class : r.id # c}
    /\ ClassTimeTable' = keep(ClassTimeTable, "class_model", {c})
    /\ ClassStudentRegistration' = keep(ClassStudentRegistration, "class_model", {c})
    /\ StudentRegistration' = keep(StudentRegistration, "class_model", {c})
    /\ ClassPayment' = keep(ClassPayment, "class_model", {c})
    /\ UNCHANGED <<University, auth_user, UniversityManager, board, InformationDocuments, scan,
                   Student, Employee, OrganManager, saving, Enterance,
                   EnteranceStudentRegistration, EnterancePayment,
                   receiver, returned, sequences, request, response>>

\* Employee.delete(): the classes it teaches as first or second teacher go
\* with it, and with them their timetables, registrations and payments; the
\* User of the employee is not touched
Employee_delete(id) ==
    LET taught == ids({c \in Class : c.teacher_first = id \/ c.teacher_second = id})
    IN  /\ id \in ids(Employee)
        /\ Employee' = {e \in Employee : e.id # id}
        /\ Class' = {c \in Class : c.id \notin taught}
        /\ ClassTimeTable' = keep(ClassTimeTable, "class_model", taught)
        /\ ClassStudentRegistration' = keep(ClassStudentRegistration, "class_model", taught)
        /\ StudentRegistration' = keep(StudentRegistration, "class_model", taught)
        /\ ClassPayment' = keep(ClassPayment, "class_model", taught)
        /\ UNCHANGED <<University, auth_user, UniversityManager, board,
                       InformationDocuments, scan, Student, OrganManager, saving, Enterance,
                       EnteranceStudentRegistration, EnterancePayment,
                       receiver, returned, sequences, request, response>>

\* the next primary keys of CascadeInit
CascadeSequences ==
    [t \in Tables \cup {"Enterance", "EnteranceStudentRegistration",
                        "ClassStudentRegistration", "StudentRegistration",
                        "EnterancePayment", "ClassPayment"} |->
        IF t \in {"notice", "translation", "StudentRegistration"} THEN 1 ELSE 2]

CascadeInit ==
    /\ University = {1, 2}
    /\ auth_user = <<AuthUser(<<"e", "1">>, make_password(<<"a">>), {"upsight_staff"}),
                     AuthUser(str(2), make_password(<<"a">>), {"university_staff"})>>
    /\ UniversityManager =
           {[id |-> 1, user |-> 2, university |-> 1, manager_id |-> 2,
             password |-> make_password(<<"a">>)]}
    /\ Employee =
           {[id |-> 1, user |-> 1, employee_id |-> <<"e", "1">>,
             password |-> make_password(<<"a">>)]}
    /\ board = [k \in Kinds |->
                  CASE k = "information" ->
                         {[id |-> 1, university |-> 1, title_uz |-> Uz(3),
                           title_ko |-> Ko(3), content_uz |-> Uz(10),
                           content_ko |-> Ko(10)]}
                    [] k = "news" ->
                         {[id |-> 1, university |-> 2, title_uz |-> Uz(3),
                           title_ko |-> Ko(3), content_uz |-> Uz(10),
                           content_ko |-> Ko(10)]}
                    [] OTHER -> {}]
    /\ InformationDocuments =
           {[id |-> 1, information |-> 1, document_uz |-> Uz(3), document_ko |-> <<>>]}
    /\ Student = <<[id |-> 1, name_ko |-> Ko(3), name_uz |-> Uz(3)]>>
    /\ Class = {ClassRow(1, 1, 1)}
    /\ ClassTimeTable = {[id |-> 1, class_model |-> 1]}
    /\ OrganManager = {}
    /\ saving = NoSave
    /\ Enterance = {EnteranceRow(1, 1, 1, 2, "now")}
    /\ EnteranceStudentRegistration = {[id |-> 1, enterance |-> 1, student |-> 1,
                                        state |-> 1]}
    /\ ClassStudentRegistration = {[id |-> 1, student |-> 1, class_model |-> 1,
                                    state |-> 1]}
    /\ StudentRegistration = {}
    /\ EnterancePayment = {[id |-> 1, date |-> 1, amount |-> 100, student |-> 1,
                            enterance |-> 1]}
    /\ ClassPayment = {[id |-> 1, date |-> 1, amount |-> 100, student |-> 1,
                        class_model |-> 1]}
    /\ receiver = NoInstance
    /\ returned = NoValue
    /\ sequences = CascadeSequences
    /\ scan = PrimaryKeyScan
    /\ request = Idle
    /\ response = NoResponse

\* rows inserted so far in CascadeSpec
RECURSIVE SumOver(_, _)
SumOver(f, keys) ==
    IF keys = {} THEN 0
    ELSE LET k == CHOOSE k \in keys : TRUE IN f[k] + SumOver(f, keys \ {k})

CascadeInserts ==
    SumOver(sequences, DOMAIN sequences) - SumOver(CascadeSequences, DOMAIN sequences)

MayInsert == request = Idle /\ CascadeInserts < MaxCascadeInserts

cascade_create ==
    /\ MayInsert
    /\ \E user \in Users, u \in {1, 2} :
           item_create("information", user,
                       [text |-> ValidText, university |-> u, information |-> Absent,
                        file |-> FALSE])

cascade_document_create ==
    /\ MayInsert
    /\ \E i \in {1, 2} :
           information_document_create(1,
               [text |-> [document_uz |-> Str(3)], university |-> Absent,
                information |-> i, file |-> TRUE])

cascade_enterance_add ==
    /\ MayInsert
    /\ \E u \in University : EnteranceAdmin_add(u, 1, 2, "now")

cascade_register ==
    /\ MayInsert
    /\ \/ \E e \in Enterance, s \in StudentIds :
              EnteranceStudentRegistration_create(e.id, s, 1)
       \/ \E s \in StudentIds, c \in ids(Class) : ClassStudentRegistration_create(s, c, 1)
       \/ \E s \in StudentIds, c \in ids(Class) : StudentRegistration_create(s, c, 1)

cascade_pay ==
    /\ MayInsert
    /\ \/ \E e \in Enterance, s \in StudentIds : EnterancePayment_create(1, 100, s, e.id)
       \/ \E s \in StudentIds, c \in ids(Class) : ClassPayment_create(1, 100, s, c)

cascade_delete_parent ==
    /\ request = Idle
    /\ \/ \E u \in University : University_delete(u)
       \/ \E s \in StudentIds : Student_delete(s)
       \/ \E e \in Enterance : Enterance_delete(e.id)
       \/ \E c \in ids(Class) : Class_delete(c)
       \/ \E e \in ids(Employee) : Employee_delete(e)

cascade_delete ==
    /\ request = Idle
    /\ \/ \E user \in Users, id \in {1, 2} : item_delete("information", user, id)
       \/ \E id \in {1, 2} : item_delete("news", 1, id)
       \/ \E id \in {1, 2} : information_document_delete(1, id)

\* updates that move a row to another parent: the stored text of Information 1
\* with every university key, one of them never stored, and the stored title
\* of document 1 with every information key
cascade_update ==
    /\ request = Idle
    /\ \/ \E u \in {1, 2, 3}, method \in {"PUT", "PATCH"} :
              item_update("information", 1, 1,
                          [text |-> [title_uz |-> Uz(3), content_uz |-> Uz(10)],
                           university |-> u, information |-> Absent, file |-> FALSE],
                          method)
       \/ \E i \in {1, 2, 3} :
              information_document_update(1, 1,
                  [text |-> [document_uz |-> Uz(3)], university |-> Absent,
                   information |-> i, file |-> FALSE], "PATCH")

cascade_get ==
    /\ request = Idle
    /\ \/ \E user \in Users, id \in {1, 2} : item_detail("information", user, id)
       \/ \E id \in {1, 2} : information_document_detail(1, id)
       \/ \E id \in {1, 2} : enterance_detail(1, id)

CascadeNext ==
    \/ cascade_create \/ cascade_document_create \/ cascade_enterance_add
    \/ cascade_register \/ cascade_pay \/ cascade_delete_parent \/ cascade_delete
    \/ cascade_update \/ cascade_get \/ next_request

CascadeSpec == CascadeInit /\ [][CascadeNext]_vars

\* a detail request for a row that is not stored, by a user the view lets in
GetOfAbsent ==
    /\ request.op \in {"detail", "enterance_detail"} /\ response # NoResponse
    /\ IF request.op = "enterance_detail"
       THEN in_group(request.user, "upsight_staff")
            /\ request.id \notin ids(Enterance)
       ELSE is_staff(request.user)
            /\ request.id \notin ids(IF request.kind = "document"
                                     THEN InformationDocuments ELSE board[request.kind])

\* C23: after any sequence of creates, updates and deletes every child row
\* references a stored parent (a document its Information, a board item its
\* University, a registration or payment its Student and its Enterance or
\* Class), so a delete removes the children with the parent; and a get of an
\* id that is no longer stored answers 404.
C23_ChildrenHaveParents ==
    /\ \A d \in InformationDocuments : d.information \in ids(board["information"])
    /\ \A k \in Kinds : \A r \in board[k] : r.university \in University
    /\ \A m \in UniversityManager : m.university \in University
    /\ \A e \in Enterance : e.university \in University
    /\ \A t \in ClassTimeTable : t.class_model \in ids(Class)
    /\ \A r \in EnteranceStudentRegistration \cup EnterancePayment :
           r.student \in StudentIds /\ r.enterance \in ids(Enterance)
    /\ \A r \in ClassStudentRegistration \cup StudentRegistration \cup ClassPayment :
           r.student \in StudentIds /\ r.class_model \in ids(Class)
    /\ GetOfAbsent => response.status = HTTP_404_NOT_FOUND

\* Information 1 was moved to University 2 by an update and so outlived
\* University 1, which has been deleted with its Enterance, registration and
\* payment; Employee 1 has been deleted with its Class, timetable,
\* registration and payment; and a get of Enterance 1 answers 404
C23_Witness ==
    /\ University = {2}
    /\ \E r \in board["information"] : r.id = 1 /\ r.university = 2
    /\ \E d \in InformationDocuments : d.id = 1 /\ d.information = 1
    /\ Enterance = {} /\ EnteranceStudentRegistration = {} /\ EnterancePayment = {}
    /\ Employee = {} /\ Class = {} /\ ClassTimeTable = {}
    /\ ClassStudentRegistration = {} /\ ClassPayment = {}
    /\ Student # <<>>
    /\ request.op = "enterance_detail" /\ request.id = 1
    /\ response.status = HTTP_404_NOT_FOUND


-----------------------------------------------------------------------------
(* Repeated reads: the client keeps the answer of its last GET, with the     *)
(* rows that were stored when it was given, in `returned'.                   *)

\* every persisted row
rows == <<University, auth_user, UniversityManager, board, InformationDocuments,
          Student, Class, ClassTimeTable, Employee, OrganManager, Enterance,
          EnteranceStudentRegistration, ClassStudentRegistration, StudentRegistration,
          EnterancePayment, ClassPayment>>

\* the client has the answer of a GET
Received(req, resp, stored) ==
    [method |-> "GET", request |-> req, response |-> resp, rows |-> stored]

\* the response is delivered; the answer of a GET is kept by the client
receive ==
    /\ request # Idle
    /\ request' = Idle
    /\ response' = NoResponse
    /\ returned' = IF request.method = "GET"
                   THEN Received(request, response, rows) ELSE returned
    /\ UNCHANGED <<University, auth_user, UniversityManager, board, InformationDocuments, scan,
                   Student, Class, ClassTimeTable, Employee, OrganManager, saving,
                   Enterance, EnteranceStudentRegistration, ClassStudentRegistration,
                   StudentRegistration, EnterancePayment, ClassPayment, receiver,
                   sequences>>

get_board ==
    /\ request = Idle
    /\ \/ \E user \in Users, id \in {1, 2} : item_detail("information", user, id)
       \/ \E user \in Users : item_list("information", user)
       \/ \E id \in {1, 2} : information_document_detail(1, id)

get_enterance ==
    /\ request = Idle
    /\ \/ \E user \in Users, id \in {1, 2} : enterance_detail(user, id)
       \/ enterances_list(1)

get_write ==
    /\ request = Idle
    /\ \/ \E t \in {[title_uz |-> Uz(4)], [title_ko |-> Ko(3)]} :
              item_update("information", 1, 1,
                          [text |-> t, university |-> Absent, information |-> Absent,
                           file |-> FALSE], "PATCH")
       \/ item_delete("information", 1, 1)
       \/ \E state \in Enterance_STATE_OPTIONS : EnteranceAdmin_change(1, 1, 2, state)
       \/ Enterance_delete(1)
       \/ (sequences["EnterancePayment"] - CascadeSequences["EnterancePayment"]
               < MaxCascadeInserts
           /\ 1 \in StudentIds /\ 1 \in ids(Enterance)
           /\ EnterancePayment_create(2, 250, 1, 1))

GetNext == get_board \/ get_enterance \/ get_write \/ receive

GetSpec == CascadeInit /\ [][GetNext]_vars

\* the request being answered is the GET the client made last, and the stored
\* rows are what they were then
SameGetAgain ==
    /\ request.method = "GET" /\ response # NoResponse
    /\ returned # NoValue
    /\ returned.request = request /\ returned.rows = rows

\* C24: a list or detail GET changes no persisted row, and a GET repeated by
\* the same principal for the same id with the rows unchanged in between is
\* answered with the same serialized output.
C24_GetIsIdempotent ==
    /\ [][request = Idle /\ request' # Idle /\ request'.method = "GET" => rows' = rows]_vars
    /\ [](SameGetAgain => response = returned.response)

\* enterance 1, closed by the operator, is read with its registered student
\* a second time by the same user, the rows being what they were at the first read
C24_Witness ==
    /\ SameGetAgain
    /\ response.status = HTTP_200_OK
    /\ request.op = "enterance_detail"
    /\ \E b \in response.body : Len(b.students) = 1 /\ b.state = "end"


-----------------------------------------------------------------------------
(* Timetable durations (management/serializers.py, management/admin.py).     *)
(* A time is a pair <<hour, minute>>, or None for a time that is not set:     *)
(* both columns are NOT NULL, so only an object that is not a row has one.   *)

time(hour, minute) == <<hour, minute>>
hour(t) == t[1]
minute(t) == t[2]

\* f"{n}" of an integer
format(n) == IF n < 0 THEN <<"-">> \o str(0 - n) ELSE str(n)

\* f"{hours}h {minutes}m"
hm(hours, minutes) == format(hours) \o <<"h", " ">> \o format(minutes) \o <<"m">>

\* (end.hour * 60 + end.minute) - (start.hour * 60 + start.minute)
duration(start, end) ==
    (hour(end) * 60 + minute(end)) - (hour(start) * 60 + minute(start))

\* ClassTimeTableSerializer.get_duration; // and % round towards minus infinity
ClassTimeTableSerializer_get_duration(obj) ==
    IF obj.start_time # None /\ obj.end_time # None
    THEN hm(duration(obj.start_time, obj.end_time) \div 60,
            duration(obj.start_time, obj.end_time) % 60)
    ELSE <<"0", "h", " ", "0", "m">>

\* ClassTimeTableAdmin.get_duration
ClassTimeTableAdmin_get_duration(obj) ==
    IF obj.start_time # None /\ obj.end_time # None
    THEN hm(duration(obj.start_time, obj.end_time) \div 60,
            duration(obj.start_time, obj.end_time) % 60)
    ELSE <<"-">>

\* the times a timetable is stored with: start_time and end_time are
\* TimeFields without null=True
StoredTimes == {time(h, m) : h \in {0, 9, 10, 23}, m \in {0, 30, 59}}

\* the times of a ClassTimeTable object
Times == {None} \cup StoredTimes

\* ClassTimeTable(class_model=, start_time=, end_time=): an object that has
\* not been saved and has no primary key
ClassTimeTable_init(class_model, start, end) ==
    [id |-> 0, class_model |-> class_model, start_time |-> start, end_time |-> end]

\* the objects get_duration is called with: the stored rows, and objects
\* not saved, which may lack a time
TimetableObjects ==
    ClassTimeTable
    \cup {ClassTimeTable_init(1, start, end) :
              start \in {None, time(9, 0)}, end \in {None, time(9, 0)}}

DurationInit ==
    /\ University = {}
    /\ auth_user = <<AuthUser(<<"e", "1">>, make_password(<<"a">>), {"upsight_staff"})>>
    /\ UniversityManager = {}
    /\ board = [k \in Kinds |-> {}]
    /\ InformationDocuments = {}
    /\ Student = <<>>
    /\ Class = {ClassRow(1, 1, 1)}
    /\ \E start \in StoredTimes, end \in StoredTimes :
           ClassTimeTable = {[id |-> 1, class_model |-> 1, start_time |-> start,
                              end_time |-> end]}
    /\ Employee =
           {[id |-> 1, user |-> 1, employee_id |-> <<"e", "1">>,
             password |-> make_password(<<"a">>)]}
    /\ NoOtherManagement
    /\ sequences = [t \in Tables |-> 1]
    /\ scan = PrimaryKeyScan
    /\ request = Idle
    /\ response = NoResponse

duration_unchanged ==
    UNCHANGED <<University, auth_user, UniversityManager, board, InformationDocuments, scan,
                Student, Class, ClassTimeTable, Employee, OrganManager, saving, Enterance,
                EnteranceStudentRegistration, ClassStudentRegistration,
                StudentRegistration, EnterancePayment, ClassPayment,
                sequences, request, response>>

\* the serializer computes the duration field of a timetable
serializer_get_duration ==
    /\ \E obj \in TimetableObjects :
           /\ receiver' = obj
           /\ returned' = Returned("ClassTimeTableSerializer.get_duration", "time", "",
                                   ClassTimeTableSerializer_get_duration(obj))
    /\ duration_unchanged

\* the admin computes the Duration column of a timetable
admin_get_duration ==
    /\ \E obj \in TimetableObjects :
           /\ receiver' = obj
           /\ returned' = Returned("ClassTimeTableAdmin.get_duration", "time", "",
                                   ClassTimeTableAdmin_get_duration(obj))
    /\ duration_unchanged

DurationNext == serializer_get_duration \/ admin_get_duration

DurationSpec == DurationInit /\ [][DurationNext]_vars

\* C25: for a ClassTimeTable with both times set the computed duration is the
\* string 'Hh Mm' with H >= 0, 0 <= M < 60 and H*60 + M the minutes from
\* start_time to end_time; with a time missing it is '0h 0m'.
C25_DurationIsHoursAndMinutes ==
    returned # NoValue =>
        LET obj == receiver
        IN  IF obj.start_time # None /\ obj.end_time # None
            THEN \E H \in 0..23, M \in 0..59 :
                     /\ returned.result = str(H) \o <<"h", " ">> \o str(M) \o <<"m">>
                     /\ H * 60 + M = duration(obj.start_time, obj.end_time)
            ELSE returned.result = <<"0", "h", " ", "0", "m">>


-----------------------------------------------------------------------------
(* Concurrent board requests (board/views.py).  A view is not atomic: the    *)
(* update view loads the row (News.objects.get) and saves it later           *)
(* (serializer.save()), and other requests run in between.  `receiver' holds *)
(* the requests in flight, one per worker.                                   *)

Workers == {1, 2, 3}

\* a worker with no request, with a loaded instance, or with its answer
NoWork == [pc |-> "idle"]
Loaded(kind, user, instance, data, method) ==
    [pc |-> "loaded", kind |-> kind, user |-> user, instance |-> instance,
     data |-> data, method |-> method]
Inserting(kind, obj) == [pc |-> "insert", kind |-> kind, obj |-> obj]
Deleting(kind, instance) == [pc |-> "deleting", kind |-> kind, instance |-> instance]
Answered(op, kind, id, status) ==
    [pc |-> "done", op |-> op, kind |-> kind, id |-> id, status |-> status]

concurrent_unchanged ==
    UNCHANGED <<University, auth_user, UniversityManager, InformationDocuments, scan,
                Student, Class, ClassTimeTable, Employee, OrganManager, saving, Enterance,
                EnteranceStudentRegistration, ClassStudentRegistration,
                StudentRegistration, EnterancePayment, ClassPayment, returned,
                sequences, request, response>>

\* news_update up to the permission check: the row is read into `news'
update_load(p, kind, user, id, data, method) ==
    /\ receiver[p] = NoWork
    /\ receiver' = [receiver EXCEPT ![p] =
           IF ~is_staff(user)
           THEN Answered("update", kind, id, HTTP_403_FORBIDDEN)
           ELSE IF get(board[kind], id) = {}
           THEN Answered("update", kind, id, HTTP_404_NOT_FOUND)
           ELSE LET instance == CHOOSE r \in board[kind] : r.id = id
                IN  IF other_university(user, instance.university)
                    THEN Answered("update", kind, id, HTTP_403_FORBIDDEN)
                    ELSE Loaded(kind, user, instance,
                                update_data(user, instance, data), method)]
    /\ UNCHANGED board
    /\ concurrent_unchanged

\* Model.save() of a loaded instance runs two statements: an UPDATE of every
\* column of the row with that primary key, and, when the UPDATE matched no
\* row, an INSERT
Model_update(table, obj) == {IF r.id = obj.id THEN obj ELSE r : r \in table}

Model_insert(table, obj) == table \cup {obj}

\* news_update from serializer.is_valid() to the UPDATE of serializer.save():
\* a matched row is written and the request answered; with no row matched the
\* INSERT is still to run
update_save(p) ==
    /\ receiver[p].pc = "loaded"
    /\ LET w == receiver[p]
           errors == NewsCreateUpdateSerializer_errors(w.data, w.method = "PATCH")
           obj == NewsCreateUpdateSerializer_update(w.instance, w.data)
       IN  IF errors # {}
           THEN /\ receiver' = [receiver EXCEPT ![p] =
                       Answered("update", w.kind, w.instance.id, HTTP_400_BAD_REQUEST)]
                /\ UNCHANGED board
           ELSE IF get(board[w.kind], obj.id) # {}
           THEN /\ board' = [board EXCEPT ![w.kind] = Model_update(@, obj)]
                /\ receiver' = [receiver EXCEPT ![p] =
                       Answered("update", w.kind, w.instance.id, HTTP_200_OK)]
           ELSE /\ receiver' = [receiver EXCEPT ![p] = Inserting(w.kind, obj)]
                /\ UNCHANGED board
    /\ concurrent_unchanged

\* the INSERT of save(): a primary key stored in the meantime raises
\* IntegrityError, which the view's `except Exception' answers with 500
update_insert(p) ==
    /\ receiver[p].pc = "insert"
    /\ LET w == receiver[p]
       IN  IF get(board[w.kind], w.obj.id) # {}
           THEN /\ receiver' = [receiver EXCEPT ![p] =
                       Answered("update", w.kind, w.obj.id,
                                HTTP_500_INTERNAL_SERVER_ERROR)]
                /\ UNCHANGED board
           ELSE /\ board' = [board EXCEPT ![w.kind] = Model_insert(@, w.obj)]
                /\ receiver' = [receiver EXCEPT ![p] =
                       Answered("update", w.kind, w.obj.id, HTTP_200_OK)]
    /\ concurrent_unchanged

\* news_delete up to the permission check: the row is read into `news' (the
\* check reads the loaded row and the manager table, which no request of
\* ConcurrentSpec writes)
delete_load(p, kind, user, id) ==
    /\ receiver[p] = NoWork
    /\ receiver' = [receiver EXCEPT ![p] =
           IF ~is_staff(user)
           THEN Answered("delete", kind, id, HTTP_403_FORBIDDEN)
           ELSE IF get(board[kind], id) = {}
           THEN Answered("delete", kind, id, HTTP_404_NOT_FOUND)
           ELSE LET instance == CHOOSE r \in board[kind] : r.id = id
                IN  IF other_university(user, instance.university)
                    THEN Answered("delete", kind, id, HTTP_403_FORBIDDEN)
                    ELSE Deleting(kind, instance)]
    /\ UNCHANGED board
    /\ concurrent_unchanged

\* news.delete() of the loaded row and the answer: DELETE by primary key,
\* which succeeds whether or not the row is still stored
concurrent_delete(p) ==
    /\ receiver[p].pc = "deleting"
    /\ LET w == receiver[p]
       IN  /\ board' = [board EXCEPT ![w.kind] = {r \in @ : r.id # w.instance.id}]
           /\ receiver' = [receiver EXCEPT ![p] =
                  Answered("delete", w.kind, w.instance.id, HTTP_200_OK)]
    /\ concurrent_unchanged

\* the stored News row the requests are about
Row0 == [id |-> 1, university |-> 1, title_uz |-> Uz(3), title_ko |-> Ko(3),
         content_uz |-> Uz(10), content_ko |-> Ko(10)]

ConcurrentInit ==
    /\ University = {1, 2}
    /\ auth_user = <<AuthUser(<<"e", "1">>, make_password(<<"a">>), {"upsight_staff"}),
                     AuthUser(str(2), make_password(<<"a">>), {"university_staff"}),
                     AuthUser(str(3), make_password(<<"a">>), {"university_staff"})>>
    /\ UniversityManager =
           {[id |-> 1, user |-> 2, university |-> 1, manager_id |-> 2,
             password |-> make_password(<<"a">>)],
            [id |-> 2, user |-> 3, university |-> 2, manager_id |-> 3,
             password |-> make_password(<<"a">>)]}
    /\ Employee =
           {[id |-> 1, user |-> 1, employee_id |-> <<"e", "1">>,
             password |-> make_password(<<"a">>)]}
    /\ board = [k \in Kinds |-> IF k = "news" THEN {Row0} ELSE {}]
    /\ InformationDocuments = {}
    /\ Student = <<>>
    /\ Class = {}
    /\ ClassTimeTable = {}
    /\ OrganManager = {}
    /\ saving = NoSave
    /\ Enterance = {}
    /\ EnteranceStudentRegistration = {}
    /\ ClassStudentRegistration = {}
    /\ StudentRegistration = {}
    /\ EnterancePayment = {}
    /\ ClassPayment = {}
    /\ receiver = [p \in Workers |-> NoWork]
    /\ returned = NoValue
    /\ sequences = [t \in Tables |-> IF t = "news" THEN 2 ELSE 1]
    /\ scan = PrimaryKeyScan
    /\ request = Idle
    /\ response = NoResponse

Body(text) == [text |-> text, university |-> Absent, information |-> Absent,
               file |-> FALSE]

\* what worker 1 and worker 2 send: PATCH bodies that change different fields
\* (each with a title side and a content side), and a PUT of the whole row
PatchOf(p) ==
    IF p = 1 THEN Body([title_uz |-> Uz(4), content_ko |-> Ko(11)])
    ELSE Body([title_ko |-> Ko(4), content_uz |-> Uz(11)])

PutOf(p, university) ==
    [text |-> [title_uz |-> Uz(4 + p), title_ko |-> Ko(4 + p),
               content_uz |-> Uz(11 + p), content_ko |-> Ko(11 + p)],
     university |-> university, information |-> Absent, file |-> FALSE]

load ==
    \E p \in {1, 2}, user \in Users :
        \/ update_load(p, "news", user, 1, PatchOf(p), "PATCH")
        \/ \E u \in University : update_load(p, "news", user, 1, PutOf(p, u), "PUT")

save == \E p \in {1, 2} : update_save(p)

insert == \E p \in {1, 2} : update_insert(p)

delete_read == \E p \in Workers, user \in Users : delete_load(p, "news", user, 1)

delete == \E p \in Workers : concurrent_delete(p)

ConcurrentNext == load \/ save \/ insert \/ delete_read \/ delete

ConcurrentSpec == ConcurrentInit /\ [][ConcurrentNext]_vars

\* C26: once a delete of a board row has returned success the row never
\* exists again, whatever update requests were in flight.
C26_DeletedRowStaysDeleted ==
    (\E p \in Workers : receiver[p] = Answered("delete", "news", 1, HTTP_200_OK))
        => get(board["news"], 1) = {}

\* the two updates the workers made, run one after the other
ThenUpdate(row, data) == NewsCreateUpdateSerializer_update(row, processed(data))

UpdatesOf(p) == {PatchOf(p)} \cup {PutOf(p, u) : u \in {1, 2}}

SerialResults ==
    {ThenUpdate(ThenUpdate(Row0, a), b) : a \in UpdatesOf(1), b \in UpdatesOf(2)}
    \cup {ThenUpdate(ThenUpdate(Row0, b), a) : a \in UpdatesOf(1), b \in UpdatesOf(2)}

\* C27: when the two update requests have both succeeded (and no delete was
\* made) the stored row is the result of running the two updates one after
\* the other in some order; two PATCH requests on different fields both take
\* effect.
C27_ConcurrentUpdatesSerialize ==
    /\ receiver[1] = Answered("update", "news", 1, HTTP_200_OK)
    /\ receiver[2] = Answered("update", "news", 1, HTTP_200_OK)
    /\ receiver[3] = NoWork
    => board["news"] \subseteq SerialResults


-----
(* C28 *)

\* a supplied text value passes the checks of its own field
FieldOk(k, v) ==
    /\ v # None /\ strip(v) # <<>>
    /\ k \in {"title_uz", "title_ko"} =>
           Len(strip(v)) >= title_min_length /\ Len(strip(v)) <= title_max_length
    /\ k \in {"content_uz", "content_ko"} => Len(strip(v)) >= content_min_length

\* the stored row with the supplied text fields put in
Merged(row, text) == [k \in DOMAIN row |-> IF k \in DOMAIN text THEN strip(text[k]) ELSE row[k]]

\* C28: a PATCH of an existing board item that supplies only some fields, each
\* valid by itself, succeeds whenever the stored row merged with them has a
\* non-empty title pair and content pair, and leaves every field it does not
\* supply as it was.
C28_PatchIsValidatedOnTheMergedRow ==
    [][(/\ request = Idle
        /\ request'.op = "update" /\ request'.method = "PATCH"
        /\ request'.kind \in Kinds
        /\ response'.status \notin {HTTP_403_FORBIDDEN, HTTP_404_NOT_FOUND})
       => \A r \in get(board[request'.kind], request'.id) :
              (/\ \A k \in DOMAIN request'.data.text : FieldOk(k, request'.data.text[k])
               /\ Titled(request'.kind, Merged(r, request'.data.text)))
              => /\ response'.status = HTTP_200_OK
                 /\ \E q \in board'[request'.kind] :
                        /\ q.id = r.id
                        /\ \A k \in TextFields \ DOMAIN request'.data.text :
                               q[k] = r[k]]_vars


-----------------------------------------------------------------------------
(* C29 *)

\* the password column holds the encoded form of some raw password
IsHashed(password) ==
    /\ startswith_pbkdf2(password)
    /\ \E raw \in NewPasswords : ~startswith_pbkdf2(raw) /\ password = make_password(raw)

\* the login being answered gives the password the last finished save set
\* for that employee
LoginWithLastPassword ==
    /\ LoginAnswered
    /\ saving.model = "Employee" /\ saving.pc = "done"
    /\ request.data.employee_id = saving.username
    /\ request.data.password = saving.raw

\* C29: after any sequence of saves of an Employee, UniversityManager or
\* OrganManager (the first insert, then updates, some of which set a new
\* password), the stored password is a hashed value and never the plaintext
\* typed in, and an employee login with the most recently set password
\* succeeds.
C29_PasswordStaysHashed ==
    /\ (Settled /\ saving.model # "none" /\ saving.pc = "done") =>
           \A r \in Rows(saving.model) :
               r.id = saving.id => IsHashed(r.password) /\ r.password # saving.raw
    /\ LoginWithLastPassword => response.status = HTTP_200_OK


-----------------------------------------------------------------------------
(* Deletes of Employee and UniversityManager rows. The OneToOneField `user'  *)
(* is declared on the entity (on_delete=CASCADE runs from the User to the    *)
(* entity), and no delete() override or signal touches the User.             *)

\* UniversityManager.delete(): the row goes; auth_user is not touched
UniversityManager_delete(id) ==
    /\ id \in ids(UniversityManager)
    /\ UniversityManager' = {m \in UniversityManager : m.id # id}
    /\ UNCHANGED <<University, auth_user, Employee, board, InformationDocuments, scan,
                   Student, Class, ClassTimeTable, Enterance, OrganManager, saving,
                   EnteranceStudentRegistration, ClassStudentRegistration,
                   StudentRegistration, EnterancePayment, ClassPayment, receiver,
                   returned, sequences, request, response>>

\* one employee, provisioned earlier, who teaches a class with a timetable
StaffInit ==
    /\ University = {1}
    /\ auth_user = <<AuthUser(<<"e", "1">>, make_password(<<"a">>), {"upsight_staff"})>>
    /\ UniversityManager = {}
    /\ Employee =
           {[id |-> 1, user |-> 1, employee_id |-> <<"e", "1">>,
             password |-> make_password(<<"a">>)]}
    /\ board = [k \in Kinds |-> {}]
    /\ InformationDocuments = {}
    /\ Student = <<>>
    /\ Class = {ClassRow(1, 1, 1)}
    /\ ClassTimeTable = {[id |-> 1, class_model |-> 1]}
    /\ NoOtherManagement
    /\ sequences = [t \in Tables \cup {"Employee", "UniversityManager", "OrganManager"}
                       |-> IF t = "Employee" THEN 2 ELSE 1]
    /\ scan = PrimaryKeyScan
    /\ request = Idle
    /\ response = NoResponse

staff_manager_save ==
    /\ request = Idle /\ Settled /\ Saves < MaxSaves
    /\ \E u \in University, id \in ManagerIds, p \in Passwords :
           UniversityManager_save(u, id, p)

staff_admin_add ==
    /\ request = Idle /\ Settled /\ Saves < MaxSaves
    /\ \/ \E id \in EmployeeIds, p \in Passwords : ModelAdmin_add("Employee", 0, id, p)
       \/ \E u \in University, id \in ManagerIds, p \in Passwords :
              ModelAdmin_add("UniversityManager", u, id, p)

staff_employee_delete ==
    /\ request = Idle /\ Settled
    /\ \E id \in ids(Employee) : Employee_delete(id)

staff_manager_delete ==
    /\ request = Idle /\ Settled
    /\ \E id \in ids(UniversityManager) : UniversityManager_delete(id)

staff_university_delete ==
    /\ request = Idle /\ Settled
    /\ \E u \in University : University_delete(u)

StaffNext ==
    \/ employee_save \/ staff_manager_save \/ staff_admin_add
    \/ (request = Idle /\ User_objects_create)
    \/ (request = Idle /\ user_groups_add)
    \/ (request = Idle /\ save_user)
    \/ staff_employee_delete \/ staff_manager_delete \/ staff_university_delete

StaffSpec == StaffInit /\ [][StaffNext]_vars

\* the users that hold staff access through a group
StaffOf(group) == {u \in DOMAIN auth_user : group \in auth_user[u].groups}

\* C30: after any sequence of creates and deletes (no save being between two
\* of its statements), every user in upsight_staff has a live Employee row
\* paired with it and every user in university_staff a live
\* UniversityManager row: no staff access outlives its entity.
C30_NoStaffAccessOutlivesItsEntity ==
    Settled =>
        /\ \A u \in StaffOf("upsight_staff") : \E e \in Employee : e.user = u
        /\ \A u \in StaffOf("university_staff") : \E m \in UniversityManager : m.user = u

=============================================================================
